---- MODULE Spec2Model ----
(***************************************************************************)
(* Model of the two-armed bandit task of the saliency project:             *)
(*   src/bandit_task/task_logic.py            (session, evaluator, bonus)  *)
(*   src/bandit_task/variable_ratio_schedule.py, src/task/vr_schedule.py   *)
(*                                             (schedule generator)        *)
(* Python indices are 0-based, TLA+ sequences 1-based: the model keeps the *)
(* program's 0-based values in its variables (schedule_index starts at -1, *)
(* trial_num at 0, choice is 0 or 1) and adds 1 where it indexes.          *)
(* Money is counted in cents (0.5 EUR = 50), so that all arithmetic is on  *)
(* integers; Python's None is -1 where the other values are naturals.      *)
(***************************************************************************)
EXTENDS Integers, Sequences, FiniteSets, TLC

\* ------------------------------------------------------------------ bounds
\* CONFIG['TASK_PARAMS']['N_PRACTICE_TRIALS'] is 15 in the source.
N_PRACTICE_TRIALS == 1
\* CONFIG['TASK_PARAMS']['N_MAIN_TRIALS'] is 200 in the source.
N_MAIN_TRIALS == 4
\* Number of iterations of the generator loop, range(50) in the source.
N_REPEATS == 4
\* Largest arguments handed to calculate_bonus when it is checked alone.
MaxWinsArg == 7
MaxMaxWinsArg == 7
\* Number of main trials of the long session on which the counter of
\* trials since the last salient feedback is followed up to its limit.
ForcedTrials == 10
\* Number of BIS items shown (15 in the source) and of forced-choice items
\* (8): the first ones of the source's lists.
N_BIS_ITEMS == 1
N_SSS_ITEMS == 1
\* The debrief screen always shows the 9 questions of the source, and the
\* participant answers them one at a time, in any order. The first
\* N_LAST_QUESTIONS of them take any response, texts with white space and
\* the empty text included; each of the others takes one response.
N_LAST_QUESTIONS == 1
\* Longest participant ID typed or passed on the command line, in tokens.
MaxIdLen == 2
\* Number of BIS items whose response deviates from the pattern of the
\* response vectors the scores are computed on.
MaxBisDeviations == 1

\* --------------------------------------------------------------- constants
\* Python's None for choice, reaction time, max_wins and bonus.
None == 0 - 1
\* event.waitKeys returned no key within MAX_RESPONSE_TIME.
NoKey == "None"
BONUS_MAX_EUR == 3
HALF_EUR_CENTS == 50
TRIAL_COUNTER_LIMIT == 10
FORCED_SALIENCY == FALSE
vr_base_sequence == <<0, 0, 0, 1>>
\* Number of shuffled blocks in the schedule file the session reads. The
\* source's file has 50 blocks, 200 entries, for a session of 215 trials;
\* the model keeps the file shorter than the session in the same way.
SCHEDULE_BLOCKS ==
    (N_PRACTICE_TRIALS + N_MAIN_TRIALS - 1) \div Len(vr_base_sequence)
\* x coordinates of CONFIG['TASK_PARAMS']['STIM_POSITIONS'], in tenths.
STIM_POSITIONS == <<-4, 4>>
Keys == {"left", "right"}
\* Reaction times in seconds; the model distinguishes one value from None.
ReactionTimes == {1}
PayoffRows == {[payoff_1 |-> a, payoff_2 |-> b] : a, b \in {0, 1}}

VARIABLES
    forced_saliency,            \* CONFIG['TASK_PARAMS']['FORCED_SALIENCY']
    vr_schedule,                \* self.vr_schedule
    random_walk_data_main,      \* self.random_walk_data_main
    random_walk_data_practice,  \* self.random_walk_data_practice
    pc,                         \* position of run_task
    trial_num,                  \* loop variable of the running trial loop
    schedule_index,             \* self.schedule_index
    trial_counter,              \* self.trial_counter
    total_wins,                 \* self.total_wins
    data,                       \* self.data.data, the rows of the trial CSV
    max_wins,                   \* max_wins of show_final_screen
    bonus,                      \* value returned by run_task
    stdout,                     \* lines printed by run_task
    win_open,                   \* experiment.win has not been closed
    mixer_init,                 \* pygame.mixer is initialised
    twin,                       \* a second session on the same files
    gen_vr_schedule,            \* vr_schedule of create_vr_schedule
    gen_pc,                     \* position of create_vr_schedule
    cb_total_wins,              \* argument total_wins of calculate_bonus
    cb_max_wins,                \* argument max_wins of calculate_bonus
    cb_result,                  \* value returned by calculate_bonus
    participant_id,             \* self.participant_id / participant_id
    id_entry,                   \* text of the ID entry widget, or stdin line
    current_frame,              \* screen self.current_frame shows
    bis_vars,                   \* self.bis_vars
    sss_vars,                   \* self.sss_vars
    last_question_vars,         \* self.last_question_vars
    last_question_data,         \* self.last_question_data
    csv_file,                   \* <pid>_questionnaire_data.csv
    messagebox,                 \* error dialog shown by the last handler
    ep_program,                 \* the script that was started
    ep_argv,                    \* sys.argv[1:]
    ep_pc,                      \* position of the started script
    ep_bonus,                   \* bonus handed to run_questionnaire
    ep_exit_code,               \* exit status of the script
    ep_stdout,                  \* lines the script printed
    task_proc,                  \* task_proc of run_experiment
    questionnaire_proc          \* questionnaire_proc of run_experiment

fileVars == <<forced_saliency, vr_schedule, random_walk_data_main,
              random_walk_data_practice>>
sessionVars == <<pc, trial_num, schedule_index, trial_counter, total_wins,
                 data, max_wins, bonus, stdout, win_open, mixer_init>>
genVars == <<gen_vr_schedule, gen_pc>>
cbVars == <<cb_total_wins, cb_max_wins, cb_result>>
qVars == <<participant_id, id_entry, current_frame, bis_vars, sss_vars,
           last_question_vars, last_question_data, csv_file, messagebox>>
epVars == <<ep_program, ep_argv, ep_pc, ep_bonus, ep_exit_code, ep_stdout>>
procVars == <<task_proc, questionnaire_proc>>
uiVars == <<qVars, epVars, procVars>>
vars == <<fileVars, sessionVars, twin, genVars, cbVars, uiVars>>

\* ---------------------------------------------------------------- helpers
RECURSIVE SumSeq(_)
SumSeq(s) == IF s = <<>> THEN 0 ELSE Head(s) + SumSeq(Tail(s))

Max2(a, b) == IF a >= b THEN a ELSE b

\* Variant: ties are rounded up (round-half-up).
RoundHalfEven_HalfUp(n, d) ==
    LET q == n \div d
        r == n % d
    IN  IF 2 * r < d THEN q ELSE q + 1

\* Python's round(n / d) for d > 0: nearest integer, ties to the even one.
RoundHalfEven(n, d) ==
    LET q == n \div d
        r == n % d
    IN  IF 2 * r < d THEN q
        ELSE IF 2 * r > d THEN q + 1
        ELSE IF q % 2 = 0 THEN q ELSE q + 1

\* Python list indexing lst[i]: i in -len..len-1, IndexError otherwise.
PyIndexOK(lst, i) == -Len(lst) <= i /\ i < Len(lst)
PyIndex(lst, i) == IF i >= 0 THEN lst[i + 1] ELSE lst[Len(lst) + i + 1]

\* Variant: the block is drawn with replacement (np.random.choice).
np_random_permutation_WithReplacement(seq) ==
    LET n == Len(seq)
    IN  {[i \in 1..n |-> seq[p[i]]] : p \in [1..n -> 1..n]}

\* The distinct results np.random.permutation can return for a sequence.
np_random_permutation(seq) ==
    LET n == Len(seq)
        bij == {p \in [1..n -> 1..n] : \A i, j \in 1..n : p[i] = p[j] => i = j}
    IN  {[i \in 1..n |-> seq[p[i]]] : p \in bij}

\* ------------------------------------------------------ schedule generator
\* All outputs of create_vr_schedule with n iterations of its loop.
RECURSIVE create_vr_schedule(_)
create_vr_schedule(n) ==
    IF n = 0 THEN {<<>>}
    ELSE {s \o random_sequence : s \in create_vr_schedule(n - 1),
                                 random_sequence \in np_random_permutation(vr_base_sequence)}

\* Variant: the proportion of wins wraps around at the maximum.
calculate_bonus_WrapsProportion(wins, maxw) ==
    IF maxw = 0 THEN 0
    ELSE RoundHalfEven((wins % maxw) * BONUS_MAX_EUR * 100, maxw * HALF_EUR_CENTS)
             * HALF_EUR_CENTS

\* Variant: a zero maximum is clamped to 1 instead of returning 0.
calculate_bonus_ClampedMax(wins, maxw) ==
    RoundHalfEven(wins * BONUS_MAX_EUR * 100, Max2(maxw, 1) * HALF_EUR_CENTS)
        * HALF_EUR_CENTS

\* --------------------------------------------------------- bonus calculator
calculate_bonus(wins, maxw) ==
    IF maxw = 0 THEN 0
    ELSE RoundHalfEven(wins * BONUS_MAX_EUR * 100, maxw * HALF_EUR_CENTS)
             * HALF_EUR_CENTS

\* ---------------------------------------------------------------- session
\* The session as one value: run_task's position and the fields of the
\* BanditExperiment object.
Self ==
    [pc |-> pc, trial_num |-> trial_num, schedule_index |-> schedule_index,
     trial_counter |-> trial_counter, total_wins |-> total_wins, data |-> data,
     max_wins |-> max_wins, bonus |-> bonus, stdout |-> stdout,
     win_open |-> win_open, mixer_init |-> mixer_init]

\* BanditExperiment.__init__ followed by entry into run_task's try block:
\* the window is open and AudioManager has initialised the mixer.
NewSession ==
    [pc |-> "instructions", trial_num |-> 0, schedule_index |-> -1,
     trial_counter |-> 0, total_wins |-> 0, data |-> <<>>,
     max_wins |-> None, bonus |-> None, stdout |-> <<>>,
     win_open |-> TRUE, mixer_init |-> TRUE]

\* Variant: the choice is the side of the key, 0 for left and 1 for right.
GetResponse_BySide(key, flipped) ==
    IF key = NoKey
    THEN [choice |-> None, reaction_time |-> None, missed |-> TRUE]
    ELSE [choice |-> IF key = "left" THEN 0 ELSE 1,
          reaction_time |-> CHOOSE rt \in ReactionTimes : TRUE,
          missed |-> FALSE]

\* _get_response: the key that arrived within the deadline (NoKey when
\* none did) and the side stim1 is drawn on give the chosen arm.
GetResponse(key, flipped) ==
    LET stim_positions == IF flipped THEN <<STIM_POSITIONS[2], STIM_POSITIONS[1]>>
                          ELSE STIM_POSITIONS
        pos0 == stim_positions[1]
    IN  IF key = NoKey
        THEN [choice |-> None, reaction_time |-> None, missed |-> TRUE]
        ELSE [choice |-> IF (key = "left" /\ pos0 < 0) \/ (key = "right" /\ pos0 > 0)
                         THEN 0 ELSE 1,
              reaction_time |-> CHOOSE rt \in ReactionTimes : TRUE,
              missed |-> FALSE]

\* Variant: the schedule is read at the cursor's value before the increment.
DetermineFeedbackCondition_StaleCursor(s) ==
    IF ~PyIndexOK(vr_schedule, s.schedule_index - 1)
    THEN [cond |-> "IndexError", trial_counter |-> s.trial_counter, raised |-> TRUE]
    ELSE IF PyIndex(vr_schedule, s.schedule_index - 1) = 1
    THEN [cond |-> "salient", trial_counter |-> s.trial_counter, raised |-> FALSE]
    ELSE [cond |-> "non-salient", trial_counter |-> s.trial_counter, raised |-> FALSE]

\* Variant: the cursor wraps around at the end of the schedule.
DetermineFeedbackCondition_WrapAround(s) ==
    IF PyIndex(vr_schedule, s.schedule_index % Len(vr_schedule)) = 1
    THEN [cond |-> "salient", trial_counter |-> s.trial_counter, raised |-> FALSE]
    ELSE [cond |-> "non-salient", trial_counter |-> s.trial_counter, raised |-> FALSE]

\* Variant: the counter forces salient feedback only above the limit.
DetermineFeedbackCondition_StrictLimit(s) ==
    IF forced_saliency
    THEN IF s.trial_counter > TRIAL_COUNTER_LIMIT
         THEN [cond |-> "salient", trial_counter |-> 0, raised |-> FALSE]
         ELSE IF ~PyIndexOK(vr_schedule, s.schedule_index)
         THEN [cond |-> "IndexError", trial_counter |-> s.trial_counter, raised |-> TRUE]
         ELSE IF PyIndex(vr_schedule, s.schedule_index) = 1
         THEN [cond |-> "salient", trial_counter |-> 0, raised |-> FALSE]
         ELSE [cond |-> "non-salient", trial_counter |-> s.trial_counter,
               raised |-> FALSE]
    ELSE IF ~PyIndexOK(vr_schedule, s.schedule_index)
         THEN [cond |-> "IndexError", trial_counter |-> s.trial_counter, raised |-> TRUE]
         ELSE IF PyIndex(vr_schedule, s.schedule_index) = 1
         THEN [cond |-> "salient", trial_counter |-> s.trial_counter,
               raised |-> FALSE]
         ELSE [cond |-> "non-salient", trial_counter |-> s.trial_counter,
               raised |-> FALSE]

\* _determine_feedback_condition, called with the cursor already advanced.
\* raised is TRUE when the schedule lookup raises IndexError.
DetermineFeedbackCondition(s) ==
    IF forced_saliency
    THEN IF s.trial_counter >= TRIAL_COUNTER_LIMIT
         THEN [cond |-> "salient", trial_counter |-> 0, raised |-> FALSE]
         ELSE IF ~PyIndexOK(vr_schedule, s.schedule_index)
         THEN [cond |-> "IndexError", trial_counter |-> s.trial_counter, raised |-> TRUE]
         ELSE IF PyIndex(vr_schedule, s.schedule_index) = 1
         THEN [cond |-> "salient", trial_counter |-> 0, raised |-> FALSE]
         ELSE [cond |-> "non-salient", trial_counter |-> s.trial_counter,
               raised |-> FALSE]
    ELSE IF ~PyIndexOK(vr_schedule, s.schedule_index)
         THEN [cond |-> "IndexError", trial_counter |-> s.trial_counter, raised |-> TRUE]
         ELSE IF PyIndex(vr_schedule, s.schedule_index) = 1
         THEN [cond |-> "salient", trial_counter |-> s.trial_counter,
               raised |-> FALSE]
         ELSE [cond |-> "non-salient", trial_counter |-> s.trial_counter,
               raised |-> FALSE]

\* Variant: the cursor is advanced on every responded trial, won or lost.
ProcessOutcome_CursorOnEveryResponse(s, choice, payoffs) ==
    LET win_this_trial == payoffs[choice + 1] = 1
        s1 == [s EXCEPT !.schedule_index = @ + 1]
    IN  IF win_this_trial
        THEN LET s2 == [s1 EXCEPT !.total_wins = @ + 1]
                 d == DetermineFeedbackCondition(s2)
             IN  [win_this_trial |-> TRUE, feedback_cond |-> d.cond,
                  raised |-> d.raised,
                  s |-> [s2 EXCEPT !.trial_counter = d.trial_counter]]
        ELSE [win_this_trial |-> FALSE, feedback_cond |-> "non-salient",
              raised |-> FALSE, s |-> s1]

\* Variant: the feedback condition is taken from the schedule on every
\* responded trial, won or lost.
ProcessOutcome_FeedbackOnLoss(s, choice, payoffs) ==
    LET win_this_trial == payoffs[choice + 1] = 1
        s1 == IF win_this_trial
              THEN [s EXCEPT !.total_wins = @ + 1, !.schedule_index = @ + 1]
              ELSE s
        d == DetermineFeedbackCondition(s1)
    IN  [win_this_trial |-> win_this_trial, feedback_cond |-> d.cond,
         raised |-> d.raised,
         s |-> [s1 EXCEPT !.trial_counter = d.trial_counter]]

\* _process_outcome for a responded trial (choice is 0 or 1).
ProcessOutcome(s, choice, payoffs) ==
    LET win_this_trial == payoffs[choice + 1] = 1
    IN  IF win_this_trial
        THEN LET s1 == [s EXCEPT !.total_wins = @ + 1, !.schedule_index = @ + 1]
                 d == DetermineFeedbackCondition(s1)
             IN  [win_this_trial |-> TRUE, feedback_cond |-> d.cond,
                  raised |-> d.raised,
                  s |-> [s1 EXCEPT !.trial_counter = d.trial_counter]]
        ELSE [win_this_trial |-> FALSE, feedback_cond |-> "non-salient",
              raised |-> FALSE, s |-> s]

ConditionCode(condition) ==
    CASE condition = "non-salient" -> 0
      [] condition = "salient" -> 1
      [] condition = "missed" -> 2
      [] OTHER -> 2

\* Variant: the row replaces the log instead of being appended to it.
LogTrial_Overwrites(s, mode, trial, choice, rt, reward, condition, payoffs) ==
    [s EXCEPT !.data =
        <<[mode |-> mode, trial |-> trial + 1, choice |-> choice,
           reaction_time |-> rt, reward |-> IF reward THEN 1 ELSE 0,
           condition |-> ConditionCode(condition),
           payoff_1 |-> payoffs[1], payoff_2 |-> payoffs[2]]>>]

\* _log_trial and TrialData.add_trial: one row appended to the log.
LogTrial(s, mode, trial, choice, rt, reward, condition, payoffs) ==
    [s EXCEPT !.data = Append(@,
        [mode |-> mode, trial |-> trial + 1, choice |-> choice,
         reaction_time |-> rt, reward |-> IF reward THEN 1 ELSE 0,
         condition |-> ConditionCode(condition),
         payoff_1 |-> payoffs[1], payoff_2 |-> payoffs[2]])]

\* Variant: a missed trial uses up an entry of the schedule.
HandleMissedTrial_AdvancesCursor(s, mode, trial, payoffs) ==
    LogTrial([s EXCEPT !.schedule_index = @ + 1], mode, trial, None, None,
             FALSE, "missed", payoffs)

\* Variant: a missed trial is logged with the non-salient condition.
HandleMissedTrial_AsNonSalient(s, mode, trial, payoffs) ==
    LogTrial(s, mode, trial, None, None, FALSE, "non-salient", payoffs)

\* _handle_missed_trial
HandleMissedTrial(s, mode, trial, payoffs) ==
    LogTrial(s, mode, trial, None, None, FALSE, "missed", payoffs)

\* Variant: core.quit() ends the process on the spot, before the finally
\* clause has run.
Fail_SkipsFinally(s) ==
    [s EXCEPT !.pc = "failed", !.stdout = Append(@, "Experiment failed")]

\* The except and finally clauses of run_task: the error is printed,
\* core.quit() raises SystemExit, the finally clause closes the window and
\* shuts the mixer down, and the process ends; no bonus is returned.
Fail(s) ==
    [s EXCEPT !.pc = "failed", !.stdout = Append(@, "Experiment failed"),
              !.win_open = FALSE, !.mixer_init = FALSE]

\* Variant: the payoffs are read from the main table in both modes.
RunSingleTrial_MainTableOnly(s, mode, trial, key, flipped) ==
    LET current_rw == random_walk_data_main
        payoffs == <<current_rw[trial + 1].payoff_1, current_rw[trial + 1].payoff_2>>
        r == GetResponse(key, flipped)
    IN  IF r.missed
        THEN HandleMissedTrial(s, mode, trial, payoffs)
        ELSE LET o == ProcessOutcome(s, r.choice, payoffs)
             IN  IF o.raised THEN Fail(o.s)
                 ELSE LogTrial(o.s, mode, trial, r.choice, r.reaction_time,
                               o.win_this_trial, o.feedback_cond, payoffs)

\* _run_single_trial. An IndexError raised in _process_outcome leaves the
\* method before _log_trial and is caught in run_task.
RunSingleTrial(s, mode, trial, key, flipped) ==
    LET current_rw == IF mode = "practice" THEN random_walk_data_practice
                      ELSE random_walk_data_main
        payoffs == <<current_rw[trial + 1].payoff_1, current_rw[trial + 1].payoff_2>>
        r == GetResponse(key, flipped)
    IN  IF r.missed
        THEN HandleMissedTrial(s, mode, trial, payoffs)
        ELSE LET o == ProcessOutcome(s, r.choice, payoffs)
             IN  IF o.raised THEN Fail(o.s)
                 ELSE LogTrial(o.s, mode, trial, r.choice, r.reaction_time,
                               o.win_this_trial, o.feedback_cond, payoffs)

\* run_instruction_phase
RunInstructionPhase(s) == [s EXCEPT !.pc = "practice", !.trial_num = 0]

\* One iteration of the loop of run_practice_trials / run_main_trials.
RunTrial(s, key, flipped) ==
    LET s1 == [s EXCEPT !.trial_counter = @ + 1]
        s2 == RunSingleTrial(s1, s.pc, s.trial_num, key, flipped)
    IN  IF s2.pc = "failed" THEN s2 ELSE [s2 EXCEPT !.trial_num = @ + 1]

\* Variant: the cursor is reset together with total_wins after practice.
EndPracticeTrials_ResetsCursor(s) ==
    [s EXCEPT !.total_wins = 0, !.schedule_index = -1, !.pc = "main",
              !.trial_num = 0]

\* Variant: the wins of the practice phase stay in total_wins.
EndPracticeTrials_KeepsTotalWins(s) == [s EXCEPT !.pc = "main", !.trial_num = 0]

\* Variant: the main loop goes on from the trial number of the practice loop.
EndPracticeTrials_KeepsTrialNum(s) ==
    [s EXCEPT !.total_wins = 0, !.pc = "main"]

\* The end of run_practice_trials and the entry into run_main_trials.
EndPracticeTrials(s) ==
    [s EXCEPT !.total_wins = 0, !.pc = "main", !.trial_num = 0]

\* Variant: both payoff columns are summed (np.sum without np.max).
MaxWins_BothArms(rw) ==
    SumSeq([t \in 1..Len(rw) |-> rw[t].payoff_1 + rw[t].payoff_2])

\* np.sum(np.max(random_walk_data_main[['payoff_1', 'payoff_2']], axis=1))
MaxWins(rw) ==
    SumSeq([t \in 1..Len(rw) |-> Max2(rw[t].payoff_1, rw[t].payoff_2)])

\* show_final_screen, which closes the window, then the finally clause and
\* the return of run_task.
ShowFinalScreen(s) ==
    LET mw == MaxWins(random_walk_data_main)
    IN  [s EXCEPT !.max_wins = mw, !.bonus = calculate_bonus(s.total_wins, mw),
                  !.win_open = FALSE, !.mixer_init = FALSE, !.pc = "done"]

NTrials(mode) == IF mode = "practice" THEN N_PRACTICE_TRIALS ELSE N_MAIN_TRIALS
InTrialLoop(s) == s.pc \in {"practice", "main"} /\ s.trial_num < NTrials(s.pc)

\* ------------------------------------------------------------ input files
\* Payoff tables of n rows: odd trials pay as row a, even trials as row b.
PayoffTable(n, a, b) == [t \in 1..n |-> IF t % 2 = 1 THEN a ELSE b]

InitFiles ==
    /\ forced_saliency = FORCED_SALIENCY
    /\ vr_schedule \in create_vr_schedule(SCHEDULE_BLOCKS)
    /\ \E a, b \in PayoffRows :
          /\ random_walk_data_main = PayoffTable(N_MAIN_TRIALS, a, b)
          /\ random_walk_data_practice = PayoffTable(N_PRACTICE_TRIALS, b, a)

InitSession ==
    /\ pc = NewSession.pc
    /\ trial_num = NewSession.trial_num
    /\ schedule_index = NewSession.schedule_index
    /\ trial_counter = NewSession.trial_counter
    /\ total_wins = NewSession.total_wins
    /\ data = NewSession.data
    /\ max_wins = NewSession.max_wins
    /\ bonus = NewSession.bonus
    /\ stdout = NewSession.stdout
    /\ win_open = NewSession.win_open
    /\ mixer_init = NewSession.mixer_init

InitGen == gen_vr_schedule = <<>> /\ gen_pc = "loop"

InitBonus == cb_total_wins = 0 /\ cb_max_wins = 0 /\ cb_result = None

\* No questionnaire window and no script has been started.
NoText == <<>>
NoMessage == [text |-> "", item |-> 0]
InitQuestionnaireIdle ==
    /\ participant_id = NoText
    /\ id_entry = NoText
    /\ current_frame = "none"
    /\ bis_vars = <<>>
    /\ sss_vars = <<>>
    /\ last_question_vars = <<>>
    /\ last_question_data = <<>>
    /\ csv_file = <<>>
    /\ messagebox = NoMessage
\* A process run_experiment has not started yet.
NoProcess == [state |-> "none", argv |-> <<>>, returncode |-> None, stdout |-> <<>>]
InitScriptIdle ==
    /\ ep_program = "none"
    /\ ep_argv = <<>>
    /\ ep_pc = "none"
    /\ ep_exit_code = None
    /\ ep_stdout = <<>>
    /\ task_proc = NoProcess
    /\ questionnaire_proc = NoProcess
InitEntryIdle == InitScriptIdle /\ ep_bonus = None
InitUI == InitQuestionnaireIdle /\ InitEntryIdle

Init ==
    InitFiles /\ InitSession /\ twin = NewSession /\ InitGen /\ InitBonus /\ InitUI

\* The session's variables take the values of the session value s.
Becomes(s) ==
    /\ pc' = s.pc
    /\ trial_num' = s.trial_num
    /\ schedule_index' = s.schedule_index
    /\ trial_counter' = s.trial_counter
    /\ total_wins' = s.total_wins
    /\ data' = s.data
    /\ max_wins' = s.max_wins
    /\ bonus' = s.bonus
    /\ stdout' = s.stdout
    /\ win_open' = s.win_open
    /\ mixer_init' = s.mixer_init

Instructions ==
    /\ pc = "instructions"
    /\ Becomes(RunInstructionPhase(Self))
    /\ UNCHANGED <<fileVars, twin, genVars, cbVars, uiVars>>

Trial(key, flipped) ==
    /\ InTrialLoop(Self)
    /\ Becomes(RunTrial(Self, key, flipped))
    /\ UNCHANGED <<fileVars, twin, genVars, cbVars, uiVars>>

PracticeTrial ==
    /\ pc = "practice"
    /\ \E key \in Keys \cup {NoKey}, flipped \in BOOLEAN : Trial(key, flipped)

EndPractice ==
    /\ pc = "practice" /\ trial_num = N_PRACTICE_TRIALS
    /\ Becomes(EndPracticeTrials(Self))
    /\ UNCHANGED <<fileVars, twin, genVars, cbVars, uiVars>>

MainTrial ==
    /\ pc = "main"
    /\ \E key \in Keys \cup {NoKey}, flipped \in BOOLEAN : Trial(key, flipped)

FinalScreen ==
    /\ pc = "main" /\ trial_num = N_MAIN_TRIALS
    /\ Becomes(ShowFinalScreen(Self))
    /\ UNCHANGED <<fileVars, twin, genVars, cbVars, uiVars>>

Next == Instructions \/ PracticeTrial \/ EndPractice \/ MainTrial \/ FinalScreen

Spec == Init /\ [][Next]_vars

\* ------------------------------------------- run_task with failing steps
\* A statement of run_task's try block raises an exception of its own, such
\* as a drawing or audio error. What the statements before it have assigned
\* stays assigned; the except and finally clauses run on that state.

\* The places of a trial where a drawing call can raise: while the stimuli
\* are shown and the key is awaited (_get_response), while the feedback or
\* the "Zu spaet" text is shown (_show_feedback, _handle_missed_trial before
\* _log_trial), and in the inter-trial interval (_show_iti).
RaisePoints == {"stimuli", "feedback", "iti"}

\* One iteration of the trial loop, cut short by an exception at point.
\* The loop has counted the trial before _run_single_trial is entered; a
\* win has moved total_wins, the cursor and the counter before the feedback
\* is drawn; the row is in the log before the interval. trial_num, the
\* loop variable, has not moved on.
RunTrialRaises(s, key, flipped, point) ==
    LET s1 == [s EXCEPT !.trial_counter = @ + 1]
        mode == s.pc
        trial == s.trial_num
        current_rw == IF mode = "practice" THEN random_walk_data_practice
                      ELSE random_walk_data_main
        payoffs == <<current_rw[trial + 1].payoff_1, current_rw[trial + 1].payoff_2>>
        r == GetResponse(key, flipped)
    IN  IF point = "stimuli" THEN Fail(s1)
        ELSE IF r.missed
        THEN IF point = "feedback" THEN Fail(s1)
             ELSE Fail(HandleMissedTrial(s1, mode, trial, payoffs))
        ELSE LET o == ProcessOutcome(s1, r.choice, payoffs)
             IN  IF o.raised \/ point = "feedback" THEN Fail(o.s)
                 ELSE Fail(LogTrial(o.s, mode, trial, r.choice, r.reaction_time,
                                    o.win_this_trial, o.feedback_cond, payoffs))

\* show_instructions raises in run_instruction_phase.
InstructionPhaseRaises ==
    /\ pc = "instructions"
    /\ Becomes(Fail(Self))
    /\ UNCHANGED <<fileVars, twin, genVars, cbVars, uiVars>>

\* A trial of either loop raises.
TrialRaises ==
    /\ InTrialLoop(Self)
    /\ \E key \in Keys \cup {NoKey}, flipped \in BOOLEAN, point \in RaisePoints :
           Becomes(RunTrialRaises(Self, key, flipped, point))
    /\ UNCHANGED <<fileVars, twin, genVars, cbVars, uiVars>>

\* show_instructions raises in run_main_trials, after run_practice_trials
\* has reset total_wins.
MainInstructionsRaise ==
    /\ pc = "practice" /\ trial_num = N_PRACTICE_TRIALS
    /\ Becomes(Fail(EndPracticeTrials(Self)))
    /\ UNCHANGED <<fileVars, twin, genVars, cbVars, uiVars>>

\* show_final_screen raises; its max_wins and bonus are locals that are
\* lost with it.
FinalScreenRaises ==
    /\ pc = "main" /\ trial_num = N_MAIN_TRIALS
    /\ Becomes(Fail(Self))
    /\ UNCHANGED <<fileVars, twin, genVars, cbVars, uiVars>>

StepRaises ==
    InstructionPhaseRaises \/ TrialRaises \/ MainInstructionsRaise \/ FinalScreenRaises

RunTaskNext == Next \/ StepRaises

SpecRunTask == Init /\ [][RunTaskNext]_vars

\* ------------------------------------------------- two sessions side by side
\* A second participant runs the task on the same schedule and payoff files.
\* Both sessions receive their own keys during practice and the same keys
\* during the main trials; a session that has failed takes no further step.
\* The second session's log is not kept.
NoLog(s) == [s EXCEPT !.data = <<>>]

PairStep(en1, s1, en2, s2) ==
    /\ en1 \/ en2
    /\ Becomes(IF en1 THEN s1 ELSE Self)
    /\ twin' = IF en2 THEN NoLog(s2) ELSE twin
    /\ UNCHANGED <<fileVars, genVars, cbVars, uiVars>>

PairInstructions ==
    PairStep(pc = "instructions", RunInstructionPhase(Self),
             twin.pc = "instructions", RunInstructionPhase(twin))

PairPracticeTrial ==
    \E key1, key2 \in Keys \cup {NoKey}, flipped \in BOOLEAN :
        PairStep(pc = "practice" /\ InTrialLoop(Self), RunTrial(Self, key1, flipped),
                 twin.pc = "practice" /\ InTrialLoop(twin), RunTrial(twin, key2, flipped))

PairEndPractice ==
    PairStep(pc = "practice" /\ trial_num = N_PRACTICE_TRIALS, EndPracticeTrials(Self),
             twin.pc = "practice" /\ twin.trial_num = N_PRACTICE_TRIALS,
             EndPracticeTrials(twin))

PairMainTrial ==
    \E key \in Keys \cup {NoKey}, flipped \in BOOLEAN :
        PairStep(pc = "main" /\ InTrialLoop(Self), RunTrial(Self, key, flipped),
                 twin.pc = "main" /\ InTrialLoop(twin), RunTrial(twin, key, flipped))

PairFinalScreen ==
    PairStep(pc = "main" /\ trial_num = N_MAIN_TRIALS, ShowFinalScreen(Self),
             twin.pc = "main" /\ twin.trial_num = N_MAIN_TRIALS, ShowFinalScreen(twin))

PairNext ==
    \/ PairInstructions
    \/ PairPracticeTrial
    \/ PairEndPractice
    \/ PairMainTrial
    \/ PairFinalScreen

SpecPair == Init /\ [][PairNext]_vars

\* ------------------------------------------- a long session, either policy
\* A session of N_PRACTICE_TRIALS practice and ForcedTrials main trials
\* under either policy, on the schedule file and the payoff-table family
\* of Spec. Only the last row of the log is kept.
LastRowOnly(s) ==
    [s EXCEPT !.data = IF Len(@) > 1 THEN <<@[Len(@)]>> ELSE @]

ForcedNTrials(mode) ==
    IF mode = "practice" THEN N_PRACTICE_TRIALS ELSE ForcedTrials
InForcedLoop(s) ==
    s.pc \in {"practice", "main"} /\ s.trial_num < ForcedNTrials(s.pc)

InitForced ==
    /\ forced_saliency \in BOOLEAN
    /\ vr_schedule \in create_vr_schedule(SCHEDULE_BLOCKS)
    /\ \E a, b \in PayoffRows :
          /\ random_walk_data_main = PayoffTable(ForcedTrials, a, b)
          /\ random_walk_data_practice = PayoffTable(N_PRACTICE_TRIALS, b, a)
    /\ InitSession /\ twin = NewSession /\ InitGen /\ InitBonus /\ InitUI

ForcedTrial(key, flipped) ==
    /\ InForcedLoop(Self)
    /\ Becomes(LastRowOnly(RunTrial(Self, key, flipped)))
    /\ UNCHANGED <<fileVars, twin, genVars, cbVars, uiVars>>

ForcedPracticeTrial ==
    /\ pc = "practice"
    /\ \E key \in Keys \cup {NoKey}, flipped \in BOOLEAN : ForcedTrial(key, flipped)

ForcedMainTrial ==
    /\ pc = "main"
    /\ \E key \in Keys \cup {NoKey}, flipped \in BOOLEAN : ForcedTrial(key, flipped)

ForcedFinalScreen ==
    /\ pc = "main" /\ trial_num = ForcedTrials
    /\ Becomes(ShowFinalScreen(Self))
    /\ UNCHANGED <<fileVars, twin, genVars, cbVars, uiVars>>

ForcedNext ==
    \/ Instructions
    \/ ForcedPracticeTrial
    \/ EndPractice
    \/ ForcedMainTrial
    \/ ForcedFinalScreen

SpecForced == InitForced /\ [][ForcedNext]_vars

\* ------------------------------------- the feedback of a session's wins
\* A session of N_PRACTICE_TRIALS practice and ForcedTrials main trials
\* under the schedule-driven policy, on a schedule that is shorter than the
\* session and on tables in which arm 0 pays on every trial and arm 1 never,
\* so that the participant's keys make any sequence of wins, losses and
\* missed trials. Of the log only the rows of the wins are kept, and of
\* these the reward and the condition.
WIN_BLOCKS == (N_PRACTICE_TRIALS + ForcedTrials - 1) \div Len(vr_base_sequence)
WinRowsOnly(s) ==
    [s EXCEPT !.data =
        LET kept == SelectSeq(@, LAMBDA row : row.reward = 1)
        IN  [i \in 1..Len(kept) |->
                [reward |-> kept[i].reward, condition |-> kept[i].condition]]]

InitWins ==
    /\ forced_saliency = FORCED_SALIENCY
    /\ vr_schedule \in create_vr_schedule(WIN_BLOCKS)
    /\ random_walk_data_main =
          [t \in 1..ForcedTrials |-> [payoff_1 |-> 1, payoff_2 |-> 0]]
    /\ random_walk_data_practice =
          [t \in 1..N_PRACTICE_TRIALS |-> [payoff_1 |-> 1, payoff_2 |-> 0]]
    /\ InitSession /\ twin = NewSession /\ InitGen /\ InitBonus /\ InitUI

WinsTrial(key, flipped) ==
    /\ InForcedLoop(Self)
    /\ Becomes(WinRowsOnly(RunTrial(Self, key, flipped)))
    /\ UNCHANGED <<fileVars, twin, genVars, cbVars, uiVars>>

WinsPracticeTrial ==
    /\ pc = "practice"
    /\ \E key \in Keys \cup {NoKey}, flipped \in BOOLEAN : WinsTrial(key, flipped)

WinsMainTrial ==
    /\ pc = "main"
    /\ \E key \in Keys \cup {NoKey}, flipped \in BOOLEAN : WinsTrial(key, flipped)

WinsNext ==
    \/ Instructions
    \/ WinsPracticeTrial
    \/ EndPractice
    \/ WinsMainTrial
    \/ ForcedFinalScreen

SpecWins == InitWins /\ [][WinsNext]_vars

\* --------------------------------------------- the schedule generator alone
NoFiles ==
    /\ forced_saliency = FORCED_SALIENCY
    /\ vr_schedule = <<>>
    /\ random_walk_data_main = <<>>
    /\ random_walk_data_practice = <<>>

InitGenOnly ==
    NoFiles /\ InitSession /\ twin = NewSession /\ InitGen /\ InitBonus /\ InitUI

\* One iteration of the loop of create_vr_schedule.
GenExtend ==
    /\ gen_pc = "loop"
    /\ Len(gen_vr_schedule) < N_REPEATS * Len(vr_base_sequence)
    /\ \E random_sequence \in np_random_permutation(vr_base_sequence) :
          gen_vr_schedule' = gen_vr_schedule \o random_sequence
    /\ UNCHANGED <<gen_pc, fileVars, sessionVars, twin, cbVars, uiVars>>

GenReturn ==
    /\ gen_pc = "loop"
    /\ Len(gen_vr_schedule) = N_REPEATS * Len(vr_base_sequence)
    /\ gen_pc' = "returned"
    /\ UNCHANGED <<gen_vr_schedule, fileVars, sessionVars, twin, cbVars, uiVars>>

GenNext == GenExtend \/ GenReturn

SpecGen == InitGenOnly /\ [][GenNext]_vars

\* ---------------------------------------------- the bonus calculator alone
InitBonusOnly ==
    /\ NoFiles /\ InitSession /\ twin = NewSession /\ InitGen /\ InitUI
    /\ cb_total_wins \in 0..MaxWinsArg
    /\ cb_max_wins \in 0..MaxMaxWinsArg
    /\ cb_result = None

CalculateBonus ==
    /\ cb_result = None
    /\ cb_result' = calculate_bonus(cb_total_wins, cb_max_wins)
    /\ UNCHANGED <<cb_total_wins, cb_max_wins, fileVars, sessionVars, twin, genVars,
                   uiVars>>

BonusNext == CalculateBonus

SpecBonus == InitBonusOnly /\ [][BonusNext]_vars

\* ----------------------------------------------------------- questionnaire
\* src/bandit_task/questionnaire_survey.py. A text is a sequence of tokens,
\* the token " " standing for white space, so that str.strip() is modelled
\* by what it does.
Tokens == {" ", "a"}
RECURSIVE TextsUpTo(_)
TextsUpTo(n) ==
    IF n = 0 THEN {<<>>}
    ELSE TextsUpTo(n - 1)
         \cup {Append(s, c) : s \in {x \in TextsUpTo(n - 1) : Len(x) = n - 1},
                              c \in Tokens}
\* Texts typed into the open questions of the debrief screen.
AnswerTexts == {<<>>, <<" ">>, <<"a">>, <<"a", " ">>}

RECURSIVE lstrip(_)
lstrip(s) == IF s # <<>> /\ Head(s) = " " THEN lstrip(Tail(s)) ELSE s
RECURSIVE rstrip(_)
rstrip(s) ==
    IF s # <<>> /\ s[Len(s)] = " " THEN rstrip(SubSeq(s, 1, Len(s) - 1)) ELSE s
\* Variant: the text is used as it was typed.
strip_AsTyped(s) == s

\* str.strip()
strip(s) == rstrip(lstrip(s))

\* self.bis_items: the reverse flag of each of the 15 items.
bis_items ==
    <<[reverse |-> TRUE], [reverse |-> FALSE], [reverse |-> FALSE],
      [reverse |-> TRUE], [reverse |-> TRUE], [reverse |-> FALSE],
      [reverse |-> TRUE], [reverse |-> TRUE], [reverse |-> FALSE],
      [reverse |-> FALSE], [reverse |-> FALSE], [reverse |-> FALSE],
      [reverse |-> FALSE], [reverse |-> FALSE], [reverse |-> TRUE]>>

\* self.sss_items: subscale and scored option of each of the 8 items.
sss_items ==
    <<[subscale |-> "SSD", correct |-> "a"], [subscale |-> "SSB", correct |-> "b"],
      [subscale |-> "SST", correct |-> "a"], [subscale |-> "SSD", correct |-> "a"],
      [subscale |-> "SSE", correct |-> "b"], [subscale |-> "SSE", correct |-> "b"],
      [subscale |-> "SST", correct |-> "a"], [subscale |-> "SSB", correct |-> "b"]>>

\* self.last_questions: number, type and option labels of the 9 questions.
last_questions ==
    <<[number |-> 1, type |-> "open", options |-> {}],
      [number |-> 2, type |-> "open", options |-> {}],
      [number |-> 3, type |-> "radio", options |-> {<<"Ja">>, <<"Nein">>}],
      [number |-> 4, type |-> "radio",
       options |-> {<<"Sehr", " ", "auffaellig">>, <<"Moderat", " ", "auffaellig">>,
                    <<"Kaum", " ", "auffaellig">>,
                    <<"Gar", " ", "nicht", " ", "auffaellig">>}],
      [number |-> 5, type |-> "radio",
       options |-> {<<"Ja">>, <<"Nein">>, <<"Unsicher">>}],
      [number |-> 6, type |-> "open", options |-> {}],
      [number |-> 7, type |-> "radio",
       options |-> {<<"Ja">>, <<"Nein">>, <<"Unsicher">>}],
      [number |-> 8, type |-> "radio",
       options |-> {<<"Sehr", " ", "motiviert">>, <<"Moderat", " ", "motiviert">>,
                    <<"Wenig", " ", "motiviert">>,
                    <<"Gar", " ", "nicht", " ", "motiviert">>}],
      [number |-> 9, type |-> "open", options |-> {}]>>

\* The messages of messagebox.showerror; item is the question number an
\* f-string puts into the text, 0 when the text holds none.
BisError == [text |-> "Bitte beantworte alle Fragen im BIS-Fragebogen.", item |-> 0]
SssError == [text |-> "Bitte beantworte alle Fragen im SSS-Fragebogen.", item |-> 0]
OpenError(number) == [text |-> "Bitte beantworte Frage {number}.", item |-> number]
RadioError(number) ==
    [text |-> "Bitte waehle eine Antwort fuer Frage {number}.", item |-> number]

\* any(var.get() == 0 for var in self.bis_vars)
AnyBisUnanswered(bvars) == \E i \in 1..Len(bvars) : bvars[i] = 0

\* Variant: the first forced-choice item is not looked at.
AnySssUnanswered_SkipsFirst(svars) == \E i \in 2..Len(svars) : svars[i] = ""

\* any(var.get() == "" for var in self.sss_vars)
AnySssUnanswered(svars) == \E i \in 1..Len(svars) : svars[i] = ""

\* Variant: the loop reports the last question without a response.
FirstUnanswered_Last(lvars) ==
    LET missing == {q \in 1..Len(lvars) : strip(lvars[q]) = <<>>}
    IN  IF missing = {} THEN 0
        ELSE CHOOSE q \in missing : \A r \in missing : r <= q

\* The loop of validate_last_questionnaire: the number of the first question
\* whose stripped response is empty, 0 when every question has one.
FirstUnanswered(lvars) ==
    LET missing == {q \in 1..Len(lvars) : strip(lvars[q]) = <<>>}
    IN  IF missing = {} THEN 0
        ELSE CHOOSE q \in missing : \A r \in missing : q <= r

\* A column name of the questionnaire file: the text of the name and the
\* number an f-string puts into it, 0 when the name holds none.
Header(name) == [name |-> name, n |-> 0]
NumberedHeader(name, i) == [name |-> name, n |-> i]

\* last_headers of save_all_data.
last_headers ==
    <<"q-open_goal_of_study", "q-open_noticable_aspects",
      "q-choice_noticed_saliency", "q-choice_saliency_strength",
      "q-choice_saliency_impact", "q-open_saliency_impact",
      "q-choice_saliency_value", "q-choice_win_motivation", "q-open_comments">>

\* Variant: every response is added as it was given.
bis_total_NoReverse(bis_responses) == SumSeq(bis_responses)

\* The loop of save_all_data over bis_responses.
bis_total(bis_responses) ==
    SumSeq([i \in 1..Len(bis_responses) |->
               IF bis_items[i].reverse THEN 5 - bis_responses[i]
               ELSE bis_responses[i]])

\* Variant: option "a" is the scored option of every item.
ss_scores_OptionA(sss_responses) ==
    [sub \in {"SST", "SSE", "SSD", "SSB"} |->
        Cardinality({i \in 1..Len(sss_responses) :
                        /\ sss_items[i].subscale = sub
                        /\ sss_responses[i] = "a"})]

\* The loop of save_all_data over sss_responses.
ss_scores(sss_responses) ==
    [sub \in {"SST", "SSE", "SSD", "SSB"} |->
        Cardinality({i \in 1..Len(sss_responses) :
                        /\ sss_items[i].subscale = sub
                        /\ sss_responses[i] = sss_items[i].correct})]

\* Variant: the data row holds the SSD count before the SSE count.
save_all_data_SwapsSubscales(pid, bis_responses, sss_responses, last_data) ==
    LET scores == ss_scores(sss_responses)
        ss_total == (scores["SST"] + scores["SSE"] + scores["SSD"]
                     + scores["SSB"]) * 25
        headers ==
            <<Header("participant_id")>>
            \o [i \in 1..Len(bis_responses) |-> NumberedHeader("bis_", i)]
            \o [i \in 1..Len(sss_responses) |-> NumberedHeader("sss_", i)]
            \o <<Header("bis_total"), Header("SST"), Header("SSE"),
                 Header("SSD"), Header("SSB"), Header("ss_total"),
                 Header("ss_percent")>>
            \o [q \in 1..Len(last_headers) |-> Header(last_headers[q])]
        data_row ==
            <<pid>> \o bis_responses \o sss_responses
            \o <<bis_total(bis_responses), scores["SST"], scores["SSD"],
                 scores["SSE"], scores["SSB"], ss_total, ss_total * 25>>
            \o [q_num \in 1..9 |-> last_data[q_num]]
    IN  <<headers, data_row>>

\* last_data_ordered of save_all_data reads last_question_data[q_num] for
\* q_num in range(1, 10): a KeyError unless all nine keys are there.
LastDataKeyError(last_data) == \E q_num \in 1..9 : q_num \notin DOMAIN last_data

\* save_all_data: the two rows written to the file, the header row and the
\* data row. The lists of response variables hold one entry per item shown,
\* so that their lengths are the lengths of the item lists. The debrief
\* columns are the nine of last_headers and of range(1, 10), whatever the
\* screen has shown. ss_total and ss_percent are counted in hundredths.
save_all_data(pid, bis_responses, sss_responses, last_data) ==
    LET scores == ss_scores(sss_responses)
        ss_total == (scores["SST"] + scores["SSE"] + scores["SSD"]
                     + scores["SSB"]) * 25
        ss_percent == ss_total * 25
        headers ==
            <<Header("participant_id")>>
            \o [i \in 1..Len(bis_responses) |-> NumberedHeader("bis_", i)]
            \o [i \in 1..Len(sss_responses) |-> NumberedHeader("sss_", i)]
            \o <<Header("bis_total"), Header("SST"), Header("SSE"),
                 Header("SSD"), Header("SSB"), Header("ss_total"),
                 Header("ss_percent")>>
            \o [q \in 1..Len(last_headers) |-> Header(last_headers[q])]
        last_data_ordered == [q_num \in 1..9 |-> last_data[q_num]]
        data_row ==
            <<pid>> \o bis_responses \o sss_responses
            \o <<bis_total(bis_responses), scores["SST"], scores["SSE"],
                 scores["SSD"], scores["SSB"], ss_total, ss_percent>>
            \o last_data_ordered
    IN  <<headers, data_row>>

\* The bonus QuestionnaireApp is constructed with: None, the default of
\* run_questionnaire and of __init__, or the float __main__ has parsed, in
\* cents.
AppBonuses == {None, 250}

\* QuestionnaireApp.__init__ with a participant ID and a bonus, as
\* __main__ starts it: the general instructions are shown.
InitQuestionnaire ==
    /\ NoFiles /\ InitSession /\ twin = NewSession /\ InitGen /\ InitBonus
    /\ InitScriptIdle
    /\ ep_bonus \in AppBonuses \ {None}
    /\ participant_id = <<"a">>
    /\ id_entry = NoText
    /\ current_frame = "instructions_general"
    /\ bis_vars = <<>>
    /\ sss_vars = <<>>
    /\ last_question_vars = <<>>
    /\ last_question_data = <<>>
    /\ csv_file = <<>>
    /\ messagebox = NoMessage

nonUI == <<fileVars, sessionVars, twin, genVars, cbVars, epVars, procVars>>

show_instructions_bis ==
    /\ current_frame = "instructions_general"
    /\ current_frame' = "instructions_bis"
    /\ messagebox' = NoMessage
    /\ UNCHANGED <<participant_id, id_entry, bis_vars, sss_vars,
                   last_question_vars, last_question_data, csv_file, nonUI>>

show_bis ==
    /\ current_frame = "instructions_bis"
    /\ current_frame' = "bis"
    /\ bis_vars' = [i \in 1..N_BIS_ITEMS |-> 0]
    /\ messagebox' = NoMessage
    /\ UNCHANGED <<participant_id, id_entry, sss_vars, last_question_vars,
                   last_question_data, csv_file, nonUI>>

\* A radio button of the BIS grid is clicked.
SelectBis ==
    /\ current_frame = "bis"
    /\ \E i \in 1..N_BIS_ITEMS, value \in 1..4 :
          bis_vars' = [bis_vars EXCEPT ![i] = value]
    /\ messagebox' = NoMessage
    /\ UNCHANGED <<participant_id, id_entry, current_frame, sss_vars,
                   last_question_vars, last_question_data, csv_file, nonUI>>

\* validate_bis; on success show_instructions_sss.
validate_bis ==
    /\ current_frame = "bis"
    /\ IF AnyBisUnanswered(bis_vars)
       THEN messagebox' = BisError /\ UNCHANGED current_frame
       ELSE messagebox' = NoMessage /\ current_frame' = "instructions_sss"
    /\ UNCHANGED <<participant_id, id_entry, bis_vars, sss_vars,
                   last_question_vars, last_question_data, csv_file, nonUI>>

show_sss ==
    /\ current_frame = "instructions_sss"
    /\ current_frame' = "sss"
    /\ sss_vars' = [i \in 1..N_SSS_ITEMS |-> ""]
    /\ messagebox' = NoMessage
    /\ UNCHANGED <<participant_id, id_entry, bis_vars, last_question_vars,
                   last_question_data, csv_file, nonUI>>

\* A radio button of a forced-choice item is clicked.
SelectSss ==
    /\ current_frame = "sss"
    /\ \E i \in 1..N_SSS_ITEMS, value \in {"a", "b"} :
          sss_vars' = [sss_vars EXCEPT ![i] = value]
    /\ messagebox' = NoMessage
    /\ UNCHANGED <<participant_id, id_entry, current_frame, bis_vars,
                   last_question_vars, last_question_data, csv_file, nonUI>>

\* validate_sss; on success show_last_questionnaire with fresh widgets.
validate_sss ==
    /\ current_frame = "sss"
    /\ IF AnySssUnanswered(sss_vars)
       THEN messagebox' = SssError
            /\ UNCHANGED <<current_frame, last_question_vars>>
       ELSE /\ messagebox' = NoMessage
            /\ current_frame' = "last_questionnaire"
            /\ last_question_vars' = [q \in 1..Len(last_questions) |-> NoText]
    /\ UNCHANGED <<participant_id, id_entry, bis_vars, sss_vars,
                   last_question_data, csv_file, nonUI>>

\* The response a question after the first N_LAST_QUESTIONS is given: a
\* typed text, or the option that starts with "Ja" or "Sehr".
LaterResponse(q) ==
    IF last_questions[q].type = "open" THEN <<"a">>
    ELSE CHOOSE option \in last_questions[q].options : option[1] \in {"Ja", "Sehr"}

\* The responses the participant gives to question q.
LastResponses(q) ==
    IF q > N_LAST_QUESTIONS THEN {LaterResponse(q)}
    ELSE IF last_questions[q].type = "open" THEN AnswerTexts
    ELSE last_questions[q].options

\* A text is typed into an open question or an option of a radio question
\* is clicked.
AnswerLast ==
    /\ current_frame = "last_questionnaire"
    /\ \E q \in 1..Len(last_question_vars) :
          \E response \in LastResponses(q) :
              last_question_vars' = [last_question_vars EXCEPT ![q] = response]
    /\ messagebox' = NoMessage
    /\ UNCHANGED <<participant_id, id_entry, current_frame, bis_vars, sss_vars,
                   last_question_data, csv_file, nonUI>>

\* show_thank_you: the frame the window shows afterwards. The old frame is
\* destroyed and a new one packed; f"{self.bonus:.2f}" raises TypeError for
\* a bonus of None before the label is made, and the frame stays empty.
show_thank_you(app_bonus) == IF app_bonus = None THEN "empty" ELSE "thank_you"

\* validate_last_questionnaire; on success save_all_data and show_thank_you.
\* An exception of save_all_data or show_thank_you ends the handler; Tk
\* reports it and the window goes on.
validate_last_questionnaire ==
    /\ current_frame = "last_questionnaire"
    /\ LET number == FirstUnanswered(last_question_vars)
           last_responses == [q \in 1..Len(last_question_vars) |->
                                 strip(last_question_vars[q])]
       IN  IF number # 0
           THEN /\ messagebox' = IF last_questions[number].type = "open"
                                 THEN OpenError(number) ELSE RadioError(number)
                /\ UNCHANGED <<current_frame, last_question_data, csv_file>>
           ELSE /\ messagebox' = NoMessage
                /\ last_question_data' = last_responses
                /\ IF LastDataKeyError(last_responses)
                   THEN UNCHANGED <<csv_file, current_frame>>
                   ELSE /\ csv_file' = save_all_data(participant_id, bis_vars,
                                                     sss_vars, last_responses)
                        /\ current_frame' = show_thank_you(ep_bonus)
    /\ UNCHANGED <<participant_id, id_entry, bis_vars, sss_vars,
                   last_question_vars, nonUI>>

QuestionnaireNext ==
    \/ show_instructions_bis
    \/ show_bis
    \/ SelectBis
    \/ validate_bis
    \/ show_sss
    \/ SelectSss
    \/ validate_sss
    \/ AnswerLast
    \/ validate_last_questionnaire

SpecQuestionnaire == InitQuestionnaire /\ [][QuestionnaireNext]_vars

\* ---------------------------------------------------- the saved scores
\* The debrief screen of the whole questionnaire (every item of bis_items,
\* sss_items and last_questions) is submitted with every question answered.
\* The BIS responses follow a pattern, one value on the reverse-keyed items
\* and one on the others, from which at most MaxBisDeviations items deviate.
BisPatterns ==
    {[i \in 1..Len(bis_items) |-> IF bis_items[i].reverse THEN r ELSE n] :
        r \in 1..4, n \in 1..4}
RECURSIVE BisDeviations(_, _)
BisDeviations(vectors, k) ==
    IF k = 0 THEN vectors
    ELSE BisDeviations(
             vectors \cup {[v EXCEPT ![i] = value] :
                              v \in vectors, i \in 1..Len(bis_items),
                              value \in 1..4},
             k - 1)
BisVectors == BisDeviations(BisPatterns, MaxBisDeviations)
SssVectors == [1..Len(sss_items) -> {"a", "b"}]
\* Complete debrief screens: a typed text in every open question and, in
\* every radio question, the option that starts with one of the words.
LastScreens ==
    {[q \in 1..Len(last_questions) |->
         IF last_questions[q].type = "open" THEN typed
         ELSE CHOOSE option \in last_questions[q].options : option[1] \in words] :
        typed \in {<<"a">>, <<" ", "a">>},
        words \in {{"Ja", "Sehr"}, {"Nein", "Gar"}}}

InitScoring ==
    /\ NoFiles /\ InitSession /\ twin = NewSession /\ InitGen /\ InitBonus
    /\ InitScriptIdle
    /\ ep_bonus \in AppBonuses
    /\ participant_id = <<"a">>
    /\ id_entry = NoText
    /\ current_frame = "last_questionnaire"
    /\ \/ bis_vars \in BisVectors
          /\ sss_vars = [i \in 1..Len(sss_items) |-> sss_items[i].correct]
       \/ bis_vars = [i \in 1..Len(bis_items) |-> 1]
          /\ sss_vars \in SssVectors
    /\ last_question_vars \in LastScreens
    /\ last_question_data = <<>>
    /\ csv_file = <<>>
    /\ messagebox = NoMessage

ScoringNext == validate_last_questionnaire

SpecScoring == InitScoring /\ [][ScoringNext]_vars

\* ------------------------------------------------------------ entry points
\* The three scripts that take a participant ID: run_experiment.py (a
\* window with an entry), questionnaire_survey.py (arguments, else a screen
\* with an entry) and task_logic.py (argument, else a line from stdin).
\* ep_pc is "start" before the script's first statement, "prompt" while it
\* waits for the ID, "task" / "questionnaire" once the bandit task or the
\* questionnaire runs with participant_id, and "exited" after the exit.
IdTexts == TextsUpTo(MaxIdLen)
BonusArgs == {<<"2.5">>, <<" ", "2.5">>, <<"x">>}
IdErrorRunExperiment == [text |-> "Please enter a valid Participant ID.", item |-> 0]
IdErrorQuestionnaire ==
    [text |-> "Bitte gib eine gueltige Teilnehmer-ID ein.", item |-> 0]

\* float(bonus_str.strip()) with ValueError giving 0.0; in cents, for the
\* arguments of BonusArgs.
ParseBonus(bonus_str) == IF strip(bonus_str) = <<"2.5">> THEN 250 ELSE 0

InitEntry ==
    /\ NoFiles /\ InitSession /\ twin = NewSession /\ InitGen /\ InitBonus
    /\ InitQuestionnaireIdle
    /\ ep_program \in {"run_experiment", "questionnaire_survey", "task_logic"}
    /\ ep_argv \in CASE ep_program = "run_experiment" -> {<<>>}
                     [] ep_program = "task_logic" ->
                          {<<>>} \cup {<<pid>> : pid \in IdTexts}
                     [] OTHER ->
                          {<<>>} \cup {<<pid>> : pid \in IdTexts}
                          \cup {<<pid, b>> : pid \in IdTexts, b \in BonusArgs}
    /\ ep_pc = "start"
    /\ ep_bonus = None
    /\ ep_exit_code = None
    /\ ep_stdout = <<>>
    /\ task_proc = NoProcess
    /\ questionnaire_proc = NoProcess

nonEntry == <<fileVars, sessionVars, twin, genVars, cbVars, bis_vars, sss_vars,
              last_question_vars, last_question_data, csv_file>>

\* run_experiment.py, module level: the window with the ID entry.
RunExperimentStart ==
    /\ ep_program = "run_experiment" /\ ep_pc = "start"
    /\ ep_pc' = "prompt"
    /\ UNCHANGED <<participant_id, id_entry, current_frame, messagebox,
                   ep_program, ep_argv, ep_bonus, ep_exit_code, ep_stdout,
                   procVars, nonEntry>>

\* The participant changes the text of the entry, or of the line on stdin.
TypeId ==
    /\ ep_pc = "prompt"
    /\ \E text \in IdTexts : id_entry' = text
    /\ messagebox' = NoMessage
    /\ UNCHANGED <<participant_id, current_frame, epVars,
                   procVars, nonEntry>>

\* submit_id of run_experiment.py; run_experiment(pid) starts the task.
submit_id ==
    /\ ep_program = "run_experiment" /\ ep_pc = "prompt"
    /\ LET pid == strip(id_entry)
       IN  IF pid = NoText
           THEN /\ messagebox' = IdErrorRunExperiment
                /\ UNCHANGED <<participant_id, id_entry, ep_pc>>
           ELSE /\ messagebox' = NoMessage
                /\ participant_id' = pid
                /\ id_entry' = NoText
                /\ ep_pc' = "task"
    /\ task_proc' = IF strip(id_entry) = NoText THEN task_proc
                    ELSE [NoProcess EXCEPT !.state = "running",
                                           !.argv = <<strip(id_entry)>>]
    /\ UNCHANGED <<current_frame, ep_program, ep_argv, ep_bonus, ep_exit_code,
                   ep_stdout, questionnaire_proc, nonEntry>>

\* questionnaire_survey.py __main__, run_questionnaire and
\* QuestionnaireApp.__init__.
QuestionnaireMain ==
    /\ ep_program = "questionnaire_survey" /\ ep_pc = "start"
    /\ IF Len(ep_argv) < 2
       THEN /\ ep_stdout' = Append(ep_stdout,
                   "Usage: questionnaire_survey.py <participant_id> <bonus>")
            /\ ep_exit_code' = 1
            /\ ep_pc' = "exited"
            /\ UNCHANGED <<participant_id, current_frame, ep_bonus>>
       ELSE /\ participant_id' = ep_argv[1]
            /\ ep_bonus' = ParseBonus(ep_argv[2])
            /\ IF ep_argv[1] # NoText
               THEN ep_pc' = "questionnaire"
                    /\ current_frame' = "instructions_general"
               ELSE ep_pc' = "prompt" /\ current_frame' = "participant_id"
            /\ UNCHANGED <<ep_stdout, ep_exit_code>>
    /\ UNCHANGED <<id_entry, messagebox, ep_program, ep_argv,
                   procVars, nonEntry>>

\* start_questionnaires
start_questionnaires ==
    /\ ep_program = "questionnaire_survey" /\ ep_pc = "prompt"
    /\ participant_id' = strip(id_entry)
    /\ IF strip(id_entry) = NoText
       THEN /\ messagebox' = IdErrorQuestionnaire
            /\ UNCHANGED <<id_entry, current_frame, ep_pc>>
       ELSE /\ messagebox' = NoMessage
            /\ id_entry' = NoText
            /\ current_frame' = "instructions_general"
            /\ ep_pc' = "questionnaire"
    /\ UNCHANGED <<ep_program, ep_argv, ep_bonus, ep_exit_code, ep_stdout,
                   procVars, nonEntry>>

\* main of task_logic.py up to run_task or to the call of input().
TaskMainStart ==
    /\ ep_program = "task_logic" /\ ep_pc = "start"
    /\ IF Len(ep_argv) > 0
       THEN /\ participant_id' = ep_argv[1]
            /\ ep_pc' = "task"
            /\ UNCHANGED ep_stdout
       ELSE /\ ep_stdout' = Append(ep_stdout, "Enter participant ID: ")
            /\ ep_pc' = "prompt"
            /\ UNCHANGED participant_id
    /\ UNCHANGED <<id_entry, current_frame, messagebox, ep_program, ep_argv,
                   ep_bonus, ep_exit_code,
                   procVars, nonEntry>>

\* main of task_logic.py from the return of input(): an empty ID is
\* reported and core.quit() ends the process with status 0.
TaskMainInput ==
    /\ ep_program = "task_logic" /\ ep_pc = "prompt"
    /\ participant_id' = strip(id_entry)
    /\ IF strip(id_entry) = NoText
       THEN /\ ep_stdout' = Append(ep_stdout, "No participant ID provided. Exiting.")
            /\ ep_exit_code' = 0
            /\ ep_pc' = "exited"
       ELSE /\ ep_pc' = "task"
            /\ UNCHANGED <<ep_stdout, ep_exit_code>>
    /\ id_entry' = NoText
    /\ UNCHANGED <<current_frame, messagebox, ep_program, ep_argv, ep_bonus,
                   procVars, nonEntry>>

\* What the process of task_logic.py, started with the participant ID as
\* its argument, leaves behind: a return code and the lines of its standard
\* output. main prints the bonus and ends with 0; after an exception inside
\* run_task the message is printed and core.quit() ends the process with 0;
\* an exception outside the try block (the constructor, the clean-up) ends
\* it with 1. Before any of this, `import pygame` prints its two lines of
\* greeting, or nothing when the environment hides the support prompt; the
\* task does not set it, so both happen with every ending.
BonusTexts ==
    {<<"0.0">>, <<"0.5">>, <<"1.0">>, <<"1.5">>, <<"2.0">>, <<"2.5">>, <<"3.0">>}
PygameBanner ==
    <<<<"pygame", " ", "2">>,
      <<"Hello", " ", "from", " ", "the", " ", "pygame", " ", "community.">>>>
ImportOutputs == {<<>>, PygameBanner}
FailedLine == <<"Experiment", " ", "failed:">>
\* The lines the task prints after the import, with its return code.
TaskEndings ==
    {[returncode |-> 0, printed |-> <<b>>] : b \in BonusTexts}
    \cup {[returncode |-> 0, printed |-> <<FailedLine>>],
          [returncode |-> 1, printed |-> <<>>],
          [returncode |-> 1, printed |-> <<FailedLine>>]}
TaskOutcomes ==
    {[returncode |-> e.returncode, stdout |-> banner \o e.printed] :
        banner \in ImportOutputs, e \in TaskEndings}

\* text.strip().splitlines() on a text given as its lines.
RECURSIVE DropBlankHead(_)
DropBlankHead(lines) ==
    IF lines # <<>> /\ strip(Head(lines)) = <<>>
    THEN DropBlankHead(Tail(lines)) ELSE lines
RECURSIVE DropBlankTail(_)
DropBlankTail(lines) ==
    IF lines # <<>> /\ strip(lines[Len(lines)]) = <<>>
    THEN DropBlankTail(SubSeq(lines, 1, Len(lines) - 1)) ELSE lines
strip_splitlines(lines) ==
    LET kept == DropBlankTail(DropBlankHead(lines))
    IN  [i \in 1..Len(kept) |->
            IF i = 1 /\ i = Len(kept) THEN strip(kept[i])
            ELSE IF i = 1 THEN lstrip(kept[i])
            ELSE IF i = Len(kept) THEN rstrip(kept[i])
            ELSE kept[i]]

\* subprocess.run of the task returns: the task process has terminated.
TaskProcessExit ==
    /\ ep_program = "run_experiment" /\ ep_pc = "task"
    /\ task_proc.state = "running"
    /\ \E outcome \in TaskOutcomes :
          task_proc' = [task_proc EXCEPT !.state = "terminated",
                                         !.returncode = outcome.returncode,
                                         !.stdout = outcome.stdout]
    /\ ep_pc' = "task_returned"
    /\ UNCHANGED <<participant_id, id_entry, current_frame, messagebox,
                   ep_program, ep_argv, ep_bonus, ep_exit_code, ep_stdout,
                   questionnaire_proc, nonEntry>>

\* Variant: the return code of the task is not looked at.
run_experiment_IgnoresReturncode ==
    /\ ep_program = "run_experiment" /\ ep_pc = "task_returned"
    /\ LET lines == strip_splitlines(task_proc.stdout)
       IN  IF lines = <<>>
           THEN /\ ep_pc' = "exited" /\ ep_exit_code' = 0
                /\ UNCHANGED <<ep_stdout, questionnaire_proc>>
           ELSE /\ questionnaire_proc' =
                       [NoProcess EXCEPT
                           !.state = "running",
                           !.argv = <<participant_id, lines[Len(lines)]>>]
                /\ ep_pc' = "questionnaire_started"
                /\ UNCHANGED <<ep_stdout, ep_exit_code>>
    /\ UNCHANGED <<participant_id, id_entry, current_frame, messagebox,
                   ep_program, ep_argv, ep_bonus, task_proc, nonEntry>>

\* run_experiment from the return of the task's subprocess.run to the start
\* of the questionnaire process. The function runs inside a callback of the
\* destroyed window, so the script ends with status 0 after a return and
\* after an exception alike.
run_experiment ==
    /\ ep_program = "run_experiment" /\ ep_pc = "task_returned"
    /\ LET lines == strip_splitlines(task_proc.stdout)
           bonus_str == lines[Len(lines)]
       IN  IF task_proc.returncode # 0
           THEN /\ ep_stdout' = Append(ep_stdout, "Error running task_logic.py:")
                /\ ep_pc' = "exited" /\ ep_exit_code' = 0
                /\ UNCHANGED questionnaire_proc
           ELSE IF lines = <<>>
           THEN /\ ep_pc' = "exited" /\ ep_exit_code' = 0
                /\ UNCHANGED <<ep_stdout, questionnaire_proc>>
           ELSE /\ questionnaire_proc' =
                       [NoProcess EXCEPT
                           !.state = "running",
                           !.argv = <<participant_id,
                                      IF bonus_str = <<>> THEN <<"0">>
                                      ELSE bonus_str>>]
                /\ ep_pc' = "questionnaire_started"
                /\ UNCHANGED <<ep_stdout, ep_exit_code>>
    /\ UNCHANGED <<participant_id, id_entry, current_frame, messagebox,
                   ep_program, ep_argv, ep_bonus, task_proc, nonEntry>>

\* subprocess.run of the questionnaire returns; run_experiment prints the
\* completed process and, for a return code other than 0, an error.
QuestionnaireProcessExit ==
    /\ ep_program = "run_experiment" /\ ep_pc = "questionnaire_started"
    /\ \E returncode \in {0, 1} :
          /\ questionnaire_proc' = [questionnaire_proc EXCEPT
                                       !.state = "terminated",
                                       !.returncode = returncode]
          /\ ep_stdout' =
                IF returncode # 0
                THEN ep_stdout \o <<"CompletedProcess",
                                    "Error running questionnaire_survey.py">>
                ELSE Append(ep_stdout, "CompletedProcess")
    /\ ep_pc' = "exited" /\ ep_exit_code' = 0
    /\ UNCHANGED <<participant_id, id_entry, current_frame, messagebox,
                   ep_program, ep_argv, ep_bonus, task_proc, nonEntry>>

EntryNext ==
    \/ RunExperimentStart
    \/ TypeId
    \/ submit_id
    \/ QuestionnaireMain
    \/ start_questionnaires
    \/ TaskMainStart
    \/ TaskMainInput

SpecEntry == InitEntry /\ [][EntryNext]_vars

\* run_experiment.py from its window to the end of the two processes it
\* runs, next to the two scripts started on their own.
RunExperimentNext ==
    \/ EntryNext
    \/ TaskProcessExit
    \/ run_experiment
    \/ QuestionnaireProcessExit

SpecRunExperiment == InitEntry /\ [][RunExperimentNext]_vars

\* ------------------------------------------------------------------ claims
\* Vocabulary of the claims: the row a trial appended to the log, the wins
\* the log records, and the payoff of the arm a key selects on the trial
\* that is about to run.
LastRow(d) == d[Len(d)]
LoggedWins(d) == Cardinality({i \in 1..Len(d) : d[i].reward = 1})
Logged == Len(data') = Len(data) + 1
CurrentRow ==
    IF pc = "practice" THEN random_walk_data_practice[trial_num + 1]
    ELSE random_walk_data_main[trial_num + 1]
ChosenArm(key, flipped) == GetResponse(key, flipped).choice
ChosenPayoff(key, flipped) ==
    IF ChosenArm(key, flipped) = 0 THEN CurrentRow.payoff_1 ELSE CurrentRow.payoff_2

\* C1: on every responded trial whose chosen arm pays 0 the feedback
\* condition is non-salient (code 0 in the log) and neither the schedule
\* cursor nor total_wins changes.
C1_Step ==
    \A key \in Keys, flipped \in BOOLEAN :
        (/\ InTrialLoop(Self)
         /\ ChosenPayoff(key, flipped) = 0
         /\ Trial(key, flipped))
        => /\ Logged
           /\ LastRow(data').condition = 0
           /\ LastRow(data').reward = 0
           /\ schedule_index' = schedule_index
           /\ total_wins' = total_wins

\* C1, for every step of the session: a lost responded trial is non-salient
\* and keeps the cursor and total_wins.
C1_NoWinKeepsCursor == [][C1_Step]_vars

\* A lost trial was logged after the cursor had already advanced.
C1_Witness ==
    /\ data # <<>>
    /\ LastRow(data).choice # None
    /\ LastRow(data).reward = 0
    /\ LastRow(data).condition = 0
    /\ schedule_index >= 0
    /\ total_wins > 0

\* C2: under the schedule-driven policy a winning trial that finds the
\* cursor at c, with c+1 inside the schedule, leaves the cursor at c+1 and
\* is salient exactly when schedule[c+1] is 1; the first win of the session
\* reads schedule[0].
C2_Step ==
    \A key \in Keys, flipped \in BOOLEAN :
        (/\ ~forced_saliency
         /\ InTrialLoop(Self)
         /\ ChosenPayoff(key, flipped) = 1
         /\ schedule_index + 1 < Len(vr_schedule)
         /\ Trial(key, flipped))
        => /\ schedule_index' = schedule_index + 1
           /\ Logged
           /\ LastRow(data').reward = 1
           /\ vr_schedule[schedule_index + 2] = 1 => LastRow(data').condition = 1
           /\ vr_schedule[schedule_index + 2] = 0 => LastRow(data').condition = 0
           /\ LoggedWins(data) = 0 => LastRow(data').condition = vr_schedule[1]

\* C2, for every step of the session: a win inside the schedule advances the
\* cursor by one and takes its condition from the entry it arrives at.
C2_WinReadsNextScheduleEntry == [][C2_Step]_vars

\* A later win of the session was salient and one before it was not.
C2_Witness ==
    /\ Len(data) >= 2
    /\ LastRow(data).reward = 1
    /\ LastRow(data).condition = 1
    /\ schedule_index >= 1
    /\ \E i \in 1..(Len(data) - 1) : data[i].reward = 1 /\ data[i].condition = 0

\* C3: a trial without a key within the deadline is logged with choice and
\* reaction time None, reward 0 and condition 2, leaves the cursor and
\* total_wins unchanged, and the loop goes on to the next trial.
C3_Step ==
    \A flipped \in BOOLEAN :
        Trial(NoKey, flipped)
        => /\ Logged
           /\ LastRow(data').choice = None
           /\ LastRow(data').reaction_time = None
           /\ LastRow(data').reward = 0
           /\ LastRow(data').condition = 2
           /\ schedule_index' = schedule_index
           /\ total_wins' = total_wins
           /\ pc' = pc
           /\ trial_num' = trial_num + 1

\* C3, for every step of the session: a missed trial is logged as missed and
\* changes neither the cursor nor total_wins.
C3_MissedTrial == [][C3_Step]_vars

\* A missed trial was logged after a win, and the loop is still running.
C3_Witness ==
    /\ data # <<>>
    /\ LastRow(data).condition = 2
    /\ LastRow(data).choice = None
    /\ total_wins > 0
    /\ InTrialLoop(Self)

\* C4: on every responded trial the reward logged and counted is the payoff
\* of the chosen arm in the row of this trial in the table of this mode.
C4_Step ==
    \A key \in Keys, flipped \in BOOLEAN :
        Trial(key, flipped)
        => /\ total_wins' = total_wins + ChosenPayoff(key, flipped)
           /\ pc' # "failed"
              => /\ Logged
                 /\ LastRow(data').mode = pc
                 /\ LastRow(data').trial = trial_num + 1
                 /\ LastRow(data').choice = ChosenArm(key, flipped)
                 /\ LastRow(data').reward = ChosenPayoff(key, flipped)

\* C4, for every step of the session: the reward is the table payoff of the
\* chosen arm.
C4_RewardIsTablePayoff == [][C4_Step]_vars

\* A main trial was won on arm 1 while arm 0 paid nothing, on a row where
\* the practice table pays differently.
C4_Witness ==
    /\ data # <<>>
    /\ LastRow(data).mode = "main"
    /\ LastRow(data).choice = 1
    /\ LastRow(data).reward = 1
    /\ LastRow(data).payoff_1 = 0
    /\ random_walk_data_practice[1] # random_walk_data_main[1]

\* C5: the cursor never decreases, moves only on a winning trial and by
\* exactly one there; so cursor + 1 is the number of winning trials since
\* the session started, practice wins included (the win whose lookup failed
\* is counted, although it was not logged).
C5_Count ==
    schedule_index + 1 = LoggedWins(data) + (IF pc = "failed" THEN 1 ELSE 0)
C5_Step ==
    /\ schedule_index' >= schedule_index
    /\ schedule_index' # schedule_index
       => /\ schedule_index' = schedule_index + 1
          /\ \E key \in Keys, flipped \in BOOLEAN :
                /\ InTrialLoop(Self)
                /\ ChosenPayoff(key, flipped) = 1
                /\ Trial(key, flipped)
    /\ \A key \in Keys, flipped \in BOOLEAN :
          (/\ InTrialLoop(Self)
           /\ ChosenPayoff(key, flipped) = 1
           /\ Trial(key, flipped))
          => schedule_index' = schedule_index + 1

\* C5, in every state and for every step: the cursor counts the wins of the
\* session and moves by one on wins only.
C5_CursorCountsWins == [](C5_Count) /\ [][C5_Step]_vars

\* In the main phase, after a practice win and a main win: the cursor has
\* counted both while total_wins counts only the main win.
C5_Witness ==
    /\ pc = "main"
    /\ \E i, j \in 1..Len(data) :
          /\ data[i].mode = "practice" /\ data[i].reward = 1
          /\ data[j].mode = "main" /\ data[j].reward = 1
    /\ \E i \in 1..Len(data) : data[i].reward = 0
    /\ schedule_index + 1 > total_wins

\* C6: a win that finds the cursor on the last schedule entry moves it past
\* the end, the lookup fails, the trial is not logged, the session ends
\* there and no bonus is computed.
C6_Step ==
    /\ pc # "failed"
    /\ \A key \in Keys, flipped \in BOOLEAN :
          (/\ InTrialLoop(Self)
           /\ ChosenPayoff(key, flipped) = 1
           /\ schedule_index = Len(vr_schedule) - 1
           /\ Trial(key, flipped))
          => /\ pc' = "failed"
             /\ schedule_index' = Len(vr_schedule)
             /\ data' = data
             /\ max_wins' = None
             /\ bonus' = None

\* C6, for every step of the session: a win on the last schedule entry ends
\* the session without a log row and without a bonus, and a failed session
\* takes no further step.
C6_OverrunAborts == [][C6_Step]_vars

\* The session has failed on a win beyond the schedule.
C6_Witness ==
    /\ pc = "failed"
    /\ schedule_index = Len(vr_schedule)
    /\ LoggedWins(data) = Len(vr_schedule)
    /\ bonus = None

\* C7: whatever the random source returns, create_vr_schedule returns one
\* 0/1 value per position, Len(vr_base_sequence) values per iteration of its
\* loop (4 * 50 = 200 in the source), and every non-overlapping block of 4
\* (positions 4k..4k+3) sums to exactly 1.
BlockSum(sched, k) ==
    sched[4 * k + 1] + sched[4 * k + 2] + sched[4 * k + 3] + sched[4 * k + 4]
C7_ScheduleBlocks ==
    /\ \E n \in 0..N_REPEATS : Len(gen_vr_schedule) = 4 * n
    /\ gen_pc = "returned" => Len(gen_vr_schedule) = 4 * N_REPEATS
    /\ \A i \in 1..Len(gen_vr_schedule) : gen_vr_schedule[i] \in {0, 1}
    /\ \A k \in 0..(N_REPEATS - 1) :
          4 * k + 4 <= Len(gen_vr_schedule) => BlockSum(gen_vr_schedule, k) = 1

\* A returned schedule whose first two blocks carry their 1 at different
\* positions.
C7_Witness ==
    /\ gen_pc = "returned"
    /\ gen_vr_schedule[1] = 1
    /\ gen_vr_schedule[8] = 1

\* C8: two sessions on the same files whose main-trial keys are the same
\* and whose practice keys may differ end with the same bonus (None when
\* run_task returns none).
Ended(s) == s.pc \in {"done", "failed"}
C8_BonusIgnoresPractice ==
    (Ended(Self) /\ Ended(twin)) => bonus = twin.bonus

\* C9 as claimed: the maximum handed to calculate_bonus is the number of
\* (trial, arm) pairs of the main table with payoff 1.
C9_MaxWinsCountsArms ==
    pc = "done"
    => max_wins = Cardinality({t \in 1..N_MAIN_TRIALS :
                                  random_walk_data_main[t].payoff_1 = 1})
                + Cardinality({t \in 1..N_MAIN_TRIALS :
                                  random_walk_data_main[t].payoff_2 = 1})

\* C9 as amended: the maximum handed to calculate_bonus is the number of
\* main trials on which at least one arm has payoff 1, and the bonus shown
\* is calculate_bonus of total_wins and that number.
C9_MaxWinsCountsTrials ==
    pc = "done"
    => /\ max_wins = Cardinality({t \in 1..N_MAIN_TRIALS :
                                     \/ random_walk_data_main[t].payoff_1 = 1
                                     \/ random_walk_data_main[t].payoff_2 = 1})
       /\ bonus = calculate_bonus(total_wins, max_wins)

\* The final screen was reached on a main table with rows on which both
\* arms pay and rows on which only one does.
C9_Witness ==
    /\ pc = "done"
    /\ \E t \in 1..N_MAIN_TRIALS :
          random_walk_data_main[t].payoff_1 + random_walk_data_main[t].payoff_2 = 2
    /\ \E t \in 1..N_MAIN_TRIALS :
          random_walk_data_main[t].payoff_1 + random_walk_data_main[t].payoff_2 = 1
    /\ max_wins = N_MAIN_TRIALS

\* C10: calculate_bonus(0, K) is 0.0 for every K > 0 and
\* calculate_bonus(w, 0) is 0.0 for every w >= 0.
C10_ZeroBonus ==
    cb_result # None
    => /\ (cb_total_wins = 0 /\ cb_max_wins > 0) => cb_result = 0
       /\ cb_max_wins = 0 => cb_result = 0

\* calculate_bonus has returned for a positive number of wins and max 0.
C10_Witness ==
    /\ cb_result = 0
    /\ cb_max_wins = 0
    /\ cb_total_wins > 0

\* C11: for every fixed max > 0 and all 0 <= w1 <= w2,
\* calculate_bonus(w1, max) <= calculate_bonus(w2, max): the value returned
\* for w2 wins is at least the value of every smaller number of wins.
C11_BonusMonotone ==
    (cb_result # None /\ cb_max_wins > 0)
    => \A w1 \in 0..cb_total_wins :
          calculate_bonus(w1, cb_max_wins) <= cb_result

\* calculate_bonus has returned a positive bonus that one win fewer gives
\* as well and two wins fewer do not.
C11_Witness ==
    /\ cb_result # None
    /\ cb_max_wins > 0
    /\ cb_total_wins >= 2
    /\ cb_result > 0
    /\ calculate_bonus(cb_total_wins - 1, cb_max_wins) = cb_result
    /\ calculate_bonus(cb_total_wins - 2, cb_max_wins) < cb_result

\* The raw bonus (wins / max) * 3.0 lies exactly half way between two
\* half-units: 2 * wins * 300 is an odd multiple of max * 50.
ExactTie(wins, maxw) ==
    /\ (2 * wins * BONUS_MAX_EUR * 100) % (maxw * HALF_EUR_CENTS) = 0
    /\ ((2 * wins * BONUS_MAX_EUR * 100) \div (maxw * HALF_EUR_CENTS)) % 2 = 1

\* C12: for every max > 0 and wins >= 0 the bonus is a whole number of
\* half-units (50 cents), differs from the raw value (wins / max) * 3.0 by
\* at most 0.25 (25 cents), and on an exact tie is the half-unit with an
\* even number of halves.
C12_NearestHalfUnit ==
    (cb_result # None /\ cb_max_wins > 0)
    => /\ cb_result % HALF_EUR_CENTS = 0
       /\ cb_result * cb_max_wins - cb_total_wins * BONUS_MAX_EUR * 100
             <= (HALF_EUR_CENTS \div 2) * cb_max_wins
       /\ cb_total_wins * BONUS_MAX_EUR * 100 - cb_result * cb_max_wins
             <= (HALF_EUR_CENTS \div 2) * cb_max_wins
       /\ ExactTie(cb_total_wins, cb_max_wins)
          => (cb_result \div HALF_EUR_CENTS) % 2 = 0

\* calculate_bonus has returned on an exact tie whose lower half-unit is
\* the odd one: raw 0.75 gives 1.0.
C12_Witness ==
    /\ cb_result # None
    /\ cb_max_wins > 0
    /\ ExactTie(cb_total_wins, cb_max_wins)
    /\ cb_result * cb_max_wins > cb_total_wins * BONUS_MAX_EUR * 100

\* The number of trials finished so far, and the mode and 1-based index of
\* the i-th trial of a session.
FinishedTrials ==
    CASE pc = "instructions" -> 0
      [] pc = "practice" -> trial_num
      [] pc = "main" -> N_PRACTICE_TRIALS + trial_num
      [] pc = "done" -> N_PRACTICE_TRIALS + N_MAIN_TRIALS
      [] OTHER -> Len(data)
ModeOfTrial(i) == IF i <= N_PRACTICE_TRIALS THEN "practice" ELSE "main"
IndexOfTrial(i) == IF i <= N_PRACTICE_TRIALS THEN i ELSE i - N_PRACTICE_TRIALS

\* C13, in every state: the log holds one record per finished trial, in
\* the order the trials ran, with a 1-based trial index that restarts at 1
\* for the main phase; after an abort the records of the trials before the
\* aborted one are in the log.
C13_Log ==
    /\ Len(data) <= N_PRACTICE_TRIALS + N_MAIN_TRIALS
    /\ pc # "failed" => Len(data) = FinishedTrials
    /\ \A i \in 1..Len(data) :
          /\ data[i].mode = ModeOfTrial(i)
          /\ data[i].trial = IndexOfTrial(i)

\* C13, for every step: the log only grows, by at most one record, the
\* records it holds are not changed; a trial that finishes, responded or
\* missed, appends its record and a trial that aborts appends none.
C13_Step ==
    /\ Len(data) <= Len(data')
    /\ Len(data') <= Len(data) + 1
    /\ SubSeq(data', 1, Len(data)) = data
    /\ \A key \in Keys \cup {NoKey}, flipped \in BOOLEAN :
          Trial(key, flipped)
          => IF pc' = "failed" THEN data' = data
             ELSE /\ Logged
                  /\ LastRow(data').mode = pc
                  /\ LastRow(data').trial = trial_num + 1

\* C13: the trial log is append-only and holds exactly one record per
\* finished trial, in order, indexed from 1 within each phase.
C13_AppendOnlyLog == [](C13_Log) /\ [][C13_Step]_vars

\* The loop aborted in the main phase; the log still holds the practice
\* record and the records of the main trials before the aborted one.
C13_Witness ==
    /\ pc = "failed"
    /\ Len(data) > N_PRACTICE_TRIALS + 1
    /\ data[1].mode = "practice" /\ data[1].trial = 1
    /\ data[N_PRACTICE_TRIALS + 1].mode = "main"
    /\ data[N_PRACTICE_TRIALS + 1].trial = 1
    /\ LastRow(data).trial = Len(data) - N_PRACTICE_TRIALS

\* A record of the trial log is internally consistent.
ConsistentRow(row) ==
    /\ row.condition \in {0, 1, 2}
    /\ row.condition = 2 <=> row.choice = None
    /\ row.choice = None <=> row.reaction_time = None
    /\ row.condition = 2 => row.reward = 0
    /\ row.condition = 1 => row.reward = 1
    /\ row.choice # None => (row.choice \in {0, 1} /\ row.reward \in {0, 1})

\* C14: in every logged record the condition is 0, 1 or 2; it is 2 exactly
\* when the choice is None, which is exactly when the reaction time is
\* None; a missed record has reward 0, a salient record reward 1, and a
\* responded record has choice and reward in {0, 1}.
C14_ConsistentRecords ==
    \A i \in 1..Len(data) : ConsistentRow(data[i])

\* The log holds a missed record, a lost record, a salient win and a
\* non-salient win.
C14_Witness ==
    /\ \E i \in 1..Len(data) : data[i].condition = 2
    /\ \E i \in 1..Len(data) : data[i].condition = 0 /\ data[i].reward = 0
    /\ \E i \in 1..Len(data) : data[i].condition = 0 /\ data[i].reward = 1
    /\ \E i \in 1..Len(data) : data[i].condition = 1

\* C15: when a step of run_task between the start of the background audio
\* and the final screen has raised an exception, the process has ended with
\* the failure message printed, the window closed and the audio mixer shut
\* down, and run_task has returned no bonus.
C15_ExceptionHandled ==
    pc = "failed"
    => /\ stdout # <<>>
       /\ LastRow(stdout) = "Experiment failed"
       /\ ~win_open
       /\ ~mixer_init
       /\ bonus = None

\* The feedback of a win on the first practice trial raised: the trial and
\* the win are counted and the cursor has moved, no row is in the log, and
\* the handler has run.
C15_Witness ==
    /\ pc = "failed"
    /\ trial_num = 0
    /\ trial_counter = 1
    /\ total_wins = 1
    /\ schedule_index = 0
    /\ data = <<>>
    /\ stdout = <<"Experiment failed">>
    /\ ~win_open

\* The schedule entry the cursor arrives at on a win of the trial that is
\* about to run, when there is one.
NextEntryInRange == schedule_index + 1 < Len(vr_schedule)
NextEntry == vr_schedule[schedule_index + 2]

\* C16, under the forced-saliency policy: a winning trial on which the
\* counter of trials since the last salient feedback has reached 10 is
\* salient whatever the schedule holds at the cursor, and resets the counter
\* to 0; a win that is salient by the schedule resets it as well; after
\* every salient feedback the counter is 0.
C16_ForcedStep ==
    \A key \in Keys, flipped \in BOOLEAN :
        (/\ forced_saliency
         /\ InForcedLoop(Self)
         /\ ChosenPayoff(key, flipped) = 1
         /\ ForcedTrial(key, flipped))
        => /\ trial_counter + 1 >= TRIAL_COUNTER_LIMIT
              => /\ pc' # "failed"
                 /\ LastRow(data').condition = 1
                 /\ trial_counter' = 0
           /\ (NextEntryInRange /\ NextEntry = 1)
              => /\ LastRow(data').condition = 1
                 /\ trial_counter' = 0
           /\ (pc' # "failed" /\ LastRow(data').condition = 1)
              => trial_counter' = 0
           /\ (pc' # "failed" /\ LastRow(data').condition = 0)
              => trial_counter' = trial_counter + 1

\* C16, under the schedule-driven policy: the feedback of a winning trial
\* is the schedule entry at the cursor, whatever the counter holds, and the
\* counter is never reset.
C16_ScheduleStep ==
    \A key \in Keys, flipped \in BOOLEAN :
        (/\ ~forced_saliency
         /\ InForcedLoop(Self)
         /\ ChosenPayoff(key, flipped) = 1
         /\ ForcedTrial(key, flipped))
        => /\ trial_counter' = trial_counter + 1
           /\ NextEntryInRange
              => /\ pc' # "failed"
                 /\ LastRow(data').condition = NextEntry
           /\ ~NextEntryInRange => pc' = "failed"

\* C16, for every step of a session under either policy.
C16_ForcedSaliency == [][C16_ForcedStep /\ C16_ScheduleStep]_vars

\* Under the forced policy a win has just been given salient feedback on a
\* schedule entry of 0, and the counter is back at 0.
C16_Witness ==
    /\ forced_saliency
    /\ data # <<>>
    /\ LastRow(data).condition = 1
    /\ trial_counter = 0
    /\ PyIndexOK(vr_schedule, schedule_index)
    /\ schedule_index >= 0
    /\ PyIndex(vr_schedule, schedule_index) = 0

\* The value the data row of the questionnaire file holds in the column
\* that the header row names name (with number n).
ColumnOf(name, n) ==
    CHOOSE k \in 1..Len(csv_file[1]) : csv_file[1][k] = [name |-> name, n |-> n]
Value(name, n) == csv_file[2][ColumnOf(name, n)]

\* The items without a response on each screen of the questionnaire.
BisMissing == {i \in 1..Len(bis_vars) : bis_vars[i] \notin 1..4}
SssMissing == {i \in 1..Len(sss_vars) : sss_vars[i] \notin {"a", "b"}}
LastMissing ==
    {q \in 1..Len(last_question_vars) : strip(last_question_vars[q]) = <<>>}
Incomplete ==
    \/ current_frame = "bis" /\ BisMissing # {}
    \/ current_frame = "sss" /\ SssMissing # {}
    \/ current_frame = "last_questionnaire" /\ LastMissing # {}

\* C17, in every state: the questionnaire file exists only with a response
\* in 1..4 for every BIS item, "a" or "b" for every forced-choice item and a
\* non-empty answer to every debrief question, and it holds these responses.
C17_SavedComplete ==
    csv_file # <<>>
    => /\ Len(bis_vars) = N_BIS_ITEMS /\ BisMissing = {}
       /\ Len(sss_vars) = N_SSS_ITEMS /\ SssMissing = {}
       /\ Len(last_question_data) = 9
       /\ \A q \in 1..9 :
             /\ last_question_data[q] # <<>>
             /\ last_question_data[q] = strip(last_question_vars[q])
       /\ \A i \in 1..N_BIS_ITEMS : Value("bis_", i) = bis_vars[i]
       /\ \A i \in 1..N_SSS_ITEMS : Value("sss_", i) = sss_vars[i]
       /\ \A q \in 1..9 :
             Value(last_headers[q], 0) = last_question_data[q]

\* C17, for every step: a validation that finds an unanswered item leaves
\* the screen, the responses and the file as they are, and the file is
\* written only by a validation of the complete debrief screen.
C17_Step ==
    /\ ((validate_bis \/ validate_sss \/ validate_last_questionnaire) /\ Incomplete)
       => UNCHANGED <<current_frame, bis_vars, sss_vars, last_question_vars,
                      last_question_data, csv_file>>
    /\ csv_file' # csv_file
       => /\ current_frame = "last_questionnaire"
          /\ BisMissing = {} /\ SssMissing = {} /\ LastMissing = {}

\* C17: save_all_data is reached only with every item answered, and a
\* failed validation changes nothing.
C17_SaveOnlyComplete == [](C17_SavedComplete) /\ [][C17_Step]_vars

\* The file has been written, with a debrief answer that was typed with
\* white space.
C17_Witness ==
    /\ current_frame = "thank_you"
    /\ csv_file # <<>>
    /\ Value("bis_", 1) = 4
    /\ Value("sss_", N_SSS_ITEMS) = "b"
    /\ last_question_vars[1] = <<"a", " ">>
    /\ Value(last_headers[1], 0) = <<"a">>

\* C18 as claimed: the error shown on an incomplete submission names an
\* unanswered item of the screen.
C18_ErrorNamesItem ==
    messagebox # NoMessage
    => \/ current_frame = "bis" /\ messagebox.item \in BisMissing
       \/ current_frame = "sss" /\ messagebox.item \in SssMissing
       \/ current_frame = "last_questionnaire" /\ messagebox.item \in LastMissing

\* C18 as amended: on an incomplete submission of the BIS or the
\* forced-choice screen the error names the questionnaire and no item; on an
\* incomplete submission of the debrief screen it names the first
\* unanswered question by its number.
C18_ErrorNamesQuestionnaireOrFirstQuestion ==
    messagebox # NoMessage
    => \/ /\ current_frame = "bis" /\ BisMissing # {}
          /\ messagebox = BisError /\ messagebox.item = 0
       \/ /\ current_frame = "sss" /\ SssMissing # {}
          /\ messagebox = SssError /\ messagebox.item = 0
       \/ /\ current_frame = "last_questionnaire" /\ LastMissing # {}
          /\ messagebox.item \in LastMissing
          /\ \A q \in LastMissing : messagebox.item <= q
          /\ messagebox \in {OpenError(messagebox.item), RadioError(messagebox.item)}

\* The debrief screen was submitted with questions 5 and 8 unanswered, and
\* the error names question 5.
C18_Witness ==
    /\ current_frame = "last_questionnaire"
    /\ messagebox = RadioError(5)
    /\ LastMissing = {5, 8}

\* An ID that is empty or holds white space only, and the three handlers
\* that take the ID a prompt has asked for.
Blank(text) == \A i \in 1..Len(text) : text[i] = " "
IdHandler == submit_id \/ start_questionnaires \/ TaskMainInput

\* C19 as claimed: at each of the three prompts an empty or blank ID gives
\* an error and a new prompt; the program does not end and does not start
\* the task or the questionnaire.
C19_BlankStep ==
    (IdHandler /\ Blank(id_entry))
    => /\ ep_pc' = "prompt"
       /\ ep_exit_code' = None
       /\ messagebox' # NoMessage \/ ep_stdout' # ep_stdout
C19_BlankIdReprompts == [][C19_BlankStep]_vars

\* C19 as amended: in the windows of run_experiment.py and of the
\* questionnaire a blank ID gives an error dialog and the window goes on
\* asking; task_logic.main on a blank line prints that no ID was provided
\* and ends the process; none of the three starts the task or the
\* questionnaire with that ID.
C19_AmendedStep ==
    /\ (submit_id /\ Blank(id_entry))
       => /\ messagebox' = IdErrorRunExperiment
          /\ ep_pc' = "prompt" /\ ep_exit_code' = None
    /\ (start_questionnaires /\ Blank(id_entry))
       => /\ messagebox' = IdErrorQuestionnaire
          /\ ep_pc' = "prompt" /\ ep_exit_code' = None
    /\ (TaskMainInput /\ Blank(id_entry))
       => /\ LastRow(ep_stdout') = "No participant ID provided. Exiting."
          /\ ep_pc' = "exited" /\ ep_exit_code' = 0
    /\ (IdHandler /\ ~Blank(id_entry))
       => /\ ep_pc' \in {"task", "questionnaire"}
          /\ participant_id' # NoText /\ ~Blank(participant_id')
C19_BlankIdRepromptsOrExits == [][C19_AmendedStep]_vars

\* task_logic.py has ended on a blank line typed at its prompt.
C19_Witness ==
    /\ ep_program = "task_logic"
    /\ ep_pc = "exited"
    /\ ep_argv = <<>>
    /\ ep_stdout = <<"Enter participant ID: ", "No participant ID provided. Exiting.">>

\* C20: task_logic.py and questionnaire_survey.py, started without their
\* positional arguments, ask for the participant ID instead of exiting.
C20_Step ==
    (/\ ep_program \in {"task_logic", "questionnaire_survey"}
     /\ ep_pc = "start"
     /\ ep_argv = <<>>
     /\ TaskMainStart \/ QuestionnaireMain)
    => /\ ep_pc' = "prompt"
       /\ ep_exit_code' = None
C20_NoArgumentsPrompt == [][C20_Step]_vars

\* The file of the whole questionnaire has been written.
Saved == csv_file # <<>>
\* The reverse-keyed BIS items and the score of a response, as the claims
\* state them.
ReverseKeyed == {1, 4, 5, 7, 8, 15}
Keyed(i, response) == IF i \in ReverseKeyed THEN 5 - response ELSE response

\* C21: for every vector of 15 BIS responses in 1..4, bis_total is the sum
\* of the raw responses to the non-reverse items and of 5 - response for the
\* reverse-keyed items 1, 4, 5, 7, 8, 15; all-1 responses give 33, 1 on the
\* non-reverse and 4 on the reverse items give 15, and the total lies in
\* 15..60.
C21_BisTotal ==
    Saved
    => /\ Len(bis_vars) = 15
       /\ Value("bis_total", 0) = SumSeq([i \in 1..15 |-> Keyed(i, bis_vars[i])])
       /\ (\A i \in 1..15 : bis_vars[i] = 1) => Value("bis_total", 0) = 33
       /\ (\A i \in 1..15 : bis_vars[i] = IF i \in ReverseKeyed THEN 4 ELSE 1)
          => Value("bis_total", 0) = 15
       /\ Value("bis_total", 0) \in 15..60

\* The file holds the lowest total, for 4 on the reverse-keyed items and 1
\* on the others.
C21_Witness ==
    /\ Saved
    /\ \A i \in 1..15 : bis_vars[i] = IF i \in ReverseKeyed THEN 4 ELSE 1
    /\ Value("bis_total", 0) = 15

\* The number of a subscale's items answered with the item's scored option.
Scored(sub) ==
    Cardinality({i \in 1..Len(sss_vars) : /\ sss_items[i].subscale = sub
                                          /\ sss_vars[i] = sss_items[i].correct})

\* C22: for every vector of 8 forced-choice responses each subscale counter
\* is the number of the subscale's items answered with the scored option,
\* ss_total is the mean of the four counters and ss_percent is 25 times
\* ss_total (both in hundredths here); with all 8 responses on the scored
\* options the counters are 2, 2, 2, 2, ss_total is 2.0 and ss_percent 50.0.
C22_SensationScores ==
    Saved
    => /\ Len(sss_vars) = 8
       /\ \A sub \in {"SST", "SSE", "SSD", "SSB"} : Value(sub, 0) = Scored(sub)
       /\ 4 * Value("ss_total", 0)
            = 100 * (Value("SST", 0) + Value("SSE", 0) + Value("SSD", 0)
                     + Value("SSB", 0))
       /\ Value("ss_percent", 0) = 25 * Value("ss_total", 0)
       /\ (\A i \in 1..8 : sss_vars[i] = sss_items[i].correct)
          => /\ \A sub \in {"SST", "SSE", "SSD", "SSB"} : Value(sub, 0) = 2
             /\ Value("ss_total", 0) = 200
             /\ Value("ss_percent", 0) = 5000

\* The file holds the scores of a vector with all 8 responses on the scored
\* options, and these are not all the same option.
C22_Witness ==
    /\ Saved
    /\ \A i \in 1..8 : sss_vars[i] = sss_items[i].correct
    /\ sss_vars[1] = "a" /\ sss_vars[2] = "b"
    /\ Value("ss_percent", 0) = 5000

\* C23 as claimed: the subscale counts reach 4 and the percentage reaches
\* 100, so the vector with every response on the scored option, which no
\* other vector exceeds on any counter, has counters 4 and percentage 100.0,
\* and the vector with no response on a scored option has percentage 0.
C23_PercentRange ==
    Saved
    => /\ (\A i \in 1..Len(sss_vars) : sss_vars[i] = sss_items[i].correct)
          => /\ \A sub \in {"SST", "SSE", "SSD", "SSB"} : Value(sub, 0) = 4
             /\ Value("ss_percent", 0) = 10000
       /\ (\A i \in 1..Len(sss_vars) : sss_vars[i] # sss_items[i].correct)
          => Value("ss_percent", 0) = 0

\* C24: the file holds a header row of exactly 40 columns, participant_id,
\* bis_1..bis_15, sss_1..sss_8, the 7 derived scores and the 9 debrief
\* columns, and one data row of exactly 40 values, each the value its
\* header names, the debrief answers in the order of the questions 1..9.
C24_CsvLayout ==
    Saved
    => LET headers == csv_file[1]
           data_row == csv_file[2]
           derived == <<"bis_total", "SST", "SSE", "SSD", "SSB", "ss_total",
                        "ss_percent">>
       IN  /\ Len(csv_file) = 2
           /\ Len(headers) = 40 /\ Len(data_row) = 40
           /\ headers[1] = Header("participant_id")
           /\ data_row[1] = participant_id
           /\ \A i \in 1..15 : /\ headers[1 + i] = NumberedHeader("bis_", i)
                               /\ data_row[1 + i] = bis_vars[i]
           /\ \A i \in 1..8 : /\ headers[16 + i] = NumberedHeader("sss_", i)
                              /\ data_row[16 + i] = sss_vars[i]
           /\ \A j \in 1..7 : headers[24 + j] = Header(derived[j])
           /\ data_row[25] = SumSeq([i \in 1..15 |-> Keyed(i, bis_vars[i])])
           /\ data_row[26] = Scored("SST") /\ data_row[27] = Scored("SSE")
           /\ data_row[28] = Scored("SSD") /\ data_row[29] = Scored("SSB")
           /\ 4 * data_row[30] = 100 * (Scored("SST") + Scored("SSE")
                                        + Scored("SSD") + Scored("SSB"))
           /\ data_row[31] = 25 * data_row[30]
           /\ \A q \in 1..9 : /\ headers[31 + q] = Header(last_headers[q])
                              /\ data_row[31 + q] = strip(last_question_vars[q])

\* The file has been written for responses with different SSE and SSD
\* counts and a debrief answer typed with white space.
C24_Witness ==
    /\ Saved
    /\ Len(csv_file[2]) = 40
    /\ csv_file[2][27] = 2 /\ csv_file[2][28] = 0
    /\ last_question_vars[1] = <<" ", "a">>
    /\ csv_file[2][32] = <<"a">>

\* C25, in every state: the questionnaire process exists only once the task
\* process has terminated with return code 0, and it was given the
\* participant ID of the task process and the last line of the task's
\* standard output.
C25_Started ==
    questionnaire_proc.state # "none"
    => /\ task_proc.state = "terminated"
       /\ task_proc.returncode = 0
       /\ questionnaire_proc.argv
            = <<task_proc.argv[1], task_proc.stdout[Len(task_proc.stdout)]>>
       /\ task_proc.argv[1] = participant_id

\* C25, for every step: while the task process runs and after it ended with
\* a return code other than 0 no questionnaire process is started.
C25_Step ==
    (task_proc.state # "terminated" \/ task_proc.returncode # 0)
    => questionnaire_proc' = NoProcess

\* C25: run_experiment starts the questionnaire only after the task has
\* terminated, never after a return code other than 0, and with the same
\* participant ID and the last line of the task's output as the bonus.
C25_QuestionnaireAfterTask == [](C25_Started) /\ [][C25_Step]_vars

\* The questionnaire was started with the bonus the task printed after the
\* lines of pygame.
C25_Witness ==
    /\ questionnaire_proc.state = "running"
    /\ task_proc.stdout = PygameBanner \o <<<<"1.5">>>>
    /\ questionnaire_proc.argv = <<<<"a", "a">>, <<"1.5">>>>

\* The side of the screen an x coordinate lies on, named as the key of that
\* side, and the stimulus drawn on the side of a key when stim1 is drawn at
\* the first position (not flipped) or at the second (flipped).
SideOf(x) == IF x < 0 THEN "left" ELSE "right"
Stim1X(flipped) == IF flipped THEN STIM_POSITIONS[2] ELSE STIM_POSITIONS[1]
Stim2X(flipped) == IF flipped THEN STIM_POSITIONS[1] ELSE STIM_POSITIONS[2]
StimulusAt(key, flipped) ==
    IF SideOf(Stim1X(flipped)) = key THEN "stim1"
    ELSE IF SideOf(Stim2X(flipped)) = key THEN "stim2"
    ELSE "none"

\* C26: for both placements and both keys the choice of a responded trial is
\* 0 iff stim1 is drawn on the side of the pressed key and 1 iff stim2 is,
\* and the reward logged and counted is the payoff of that arm.
C26_Step ==
    \A key \in Keys, flipped \in BOOLEAN :
        Trial(key, flipped)
        => LET arm == GetResponse(key, flipped).choice
               paid == IF StimulusAt(key, flipped) = "stim1"
                       THEN CurrentRow.payoff_1 ELSE CurrentRow.payoff_2
           IN  /\ arm = 0 <=> StimulusAt(key, flipped) = "stim1"
               /\ arm = 1 <=> StimulusAt(key, flipped) = "stim2"
               /\ total_wins' = total_wins + paid
               /\ pc' # "failed"
                  => /\ Logged
                     /\ LastRow(data').choice = arm
                     /\ LastRow(data').reward = paid
                     /\ LastRow(data').condition # 0 => paid = 1

\* C26, for every step of the session: the recorded choice names the chosen
\* symbol, not the side of the key.
C26_ChoiceIsSymbol == [][C26_Step]_vars

\* Two responded trials record the symbol stim1; the first is a win on a
\* row where only arm 0 pays.
C26_Witness ==
    /\ Len(data) >= 2
    /\ data[1].choice = 0 /\ data[2].choice = 0
    /\ data[1].reward = 1 /\ data[1].payoff_2 = 0

\* C27, in every state: the log holds practice rows first and main rows
\* after them, with the trial numbers in order; the main phase is entered
\* only with all practice trials logged; the final screen is reached only
\* with every trial of both phases logged, and then the bonus is returned.
C27_Order ==
    /\ \A i \in 1..Len(data) :
          IF i <= N_PRACTICE_TRIALS
          THEN data[i].mode = "practice" /\ data[i].trial = i
          ELSE data[i].mode = "main" /\ data[i].trial = i - N_PRACTICE_TRIALS
    /\ pc = "instructions" => data = <<>>
    /\ pc = "practice" => Len(data) = trial_num /\ trial_num <= N_PRACTICE_TRIALS
    /\ pc = "main" => Len(data) = N_PRACTICE_TRIALS + trial_num
    /\ pc = "done"
       => /\ Len(data) = N_PRACTICE_TRIALS + N_MAIN_TRIALS
          /\ bonus # None

\* The number of steps of run_task behind a state: the phases entered and
\* the trials logged.
C27_Progress ==
    Len(data) + (CASE pc = "instructions" -> 0
                   [] pc = "practice" -> 1
                   [] pc = "main" -> 2
                   [] OTHER -> 3)

\* C27, for every step: the phases follow each other in the fixed order and
\* every step is a step forward, the next trial or the next phase.
C27_Step ==
    /\ <<pc, pc'>> \in {<<"instructions", "practice">>, <<"practice", "practice">>,
                        <<"practice", "main">>, <<"main", "main">>,
                        <<"main", "done">>, <<"practice", "failed">>,
                        <<"main", "failed">>}
    /\ C27_Progress' = C27_Progress + 1

\* C27, in every state: until the final screen or an error run_task stands
\* before a step it can take: the instructions, a trial of the running loop,
\* or the end of a loop that has run all of its trials.
C27_CanGoOn ==
    pc \notin {"done", "failed"}
    => \/ pc = "instructions"
       \/ InTrialLoop(Self)
       \/ pc = "practice" /\ trial_num = N_PRACTICE_TRIALS
       \/ pc = "main" /\ trial_num = N_MAIN_TRIALS

\* C27: run_task goes through instructions, the practice trials, the main
\* trials and the final screen in this order; no error apart, every step is
\* followed by the next one, so that the session reaches the final screen
\* after every trial of both phases and returns the bonus.
C27_PhaseOrder == [](C27_Order /\ C27_CanGoOn) /\ [][C27_Step]_vars

\* The final screen was reached after all trials, the last of them missed.
C27_Witness ==
    /\ pc = "done"
    /\ Len(data) = N_PRACTICE_TRIALS + N_MAIN_TRIALS
    /\ LastRow(data).choice = None
    /\ data[1].mode = "practice"

\* C28: in a session of more trials than the schedule has entries (15 + 200
\* trials on 200 entries in the source) the schedule cursor never exceeds
\* the last index of the schedule, whatever the participant chooses and
\* whatever the payoff tables hold.
C28_CursorInSchedule == schedule_index <= Len(vr_schedule) - 1

\* The number of salient ones among the wins number from..to of the
\* session, data holding the rows of the wins in their order.
SalientWins(from, to) ==
    Cardinality({n \in from..to : n <= Len(data) /\ data[n].condition = 1})

\* C29: under the schedule-driven policy and inside the schedule, exactly
\* one of the wins number 4k+1..4k+4 of the session (practice included,
\* losses and missed trials skipped) is salient, for every k; no three
\* consecutive wins are all salient and any seven consecutive wins hold a
\* salient one.
C29_OneSalientPerFourWins ==
    ~forced_saliency
    => /\ Len(data) <= Len(vr_schedule)
       /\ \A n \in 1..Len(data) : data[n].reward = 1 /\ data[n].condition \in {0, 1}
       /\ \A k \in 0..(Len(data) \div 4) :
             /\ SalientWins(4 * k + 1, 4 * k + 4) <= 1
             /\ 4 * k + 4 <= Len(data) => SalientWins(4 * k + 1, 4 * k + 4) = 1
       /\ \A n \in 1..Len(data) :
             /\ n + 2 <= Len(data) => SalientWins(n, n + 2) < 3
             /\ n + 6 <= Len(data) => SalientWins(n, n + 6) >= 1

\* Eight wins, the first and the eighth salient and the six between them
\* not, in a session with a loss or a missed trial between the wins.
C29_Witness ==
    /\ Len(data) = 8
    /\ data[1].condition = 1 /\ data[8].condition = 1
    /\ SalientWins(2, 7) = 0
    /\ trial_num + (IF pc = "main" THEN N_PRACTICE_TRIALS ELSE 0) > 8

\* The wins the log records for the main phase, and the main trials on
\* which at least one arm pays.
MainWins == Cardinality({i \in 1..Len(data) : /\ data[i].mode = "main"
                                              /\ data[i].reward = 1})
PayingMainTrials ==
    Cardinality({t \in 1..Len(random_walk_data_main) :
                    \/ random_walk_data_main[t].payoff_1 = 1
                    \/ random_walk_data_main[t].payoff_2 = 1})

\* C30: at the final screen total_wins counts the wins of the main phase
\* only and lies in 0..max_wins, max_wins as computed from the main table,
\* so the bonus returned lies between 0.0 and BONUS_MAX_EUR (in cents here),
\* on a multiple of half a euro.
C30_BonusInRange ==
    pc = "done"
    => /\ total_wins = MainWins
       /\ max_wins = PayingMainTrials
       /\ 0 <= total_wins /\ total_wins <= max_wins
       /\ 0 <= bonus /\ bonus <= BONUS_MAX_EUR * 100
       /\ bonus % HALF_EUR_CENTS = 0
       /\ (max_wins > 0 /\ total_wins = max_wins) => bonus = BONUS_MAX_EUR * 100

\* The final screen of a session that won its practice trial and every
\* paying main trial: the full bonus, the practice win not counted.
C30_Witness ==
    /\ pc = "done"
    /\ data[1].mode = "practice" /\ data[1].reward = 1
    /\ max_wins > 0 /\ total_wins = max_wins
    /\ bonus = BONUS_MAX_EUR * 100

====
